---- MODULE Spec2Model ----
(***************************************************************************)
(* A model of the query engine of game-recommendation-system               *)
(* (src/api/api_utils.py): money_spent and num_user_review over the users, *)
(* games and reviews tables, with the literal decoder and the date parser  *)
(* they rest on.                                                           *)
(*                                                                         *)
(* Representation.                                                         *)
(*  - A Python value is a record [k, n, s, l]: k its type, n the number    *)
(*    of an int / bool / float, s the text of a str, l the items of a      *)
(*    list.  NaN is the null cell of a DataFrame.                          *)
(*  - A text (Python str) is a sequence of tokens; a token is a run of     *)
(*    characters ("2020", "-", "[", "True", " ") and Len(token) is its     *)
(*    number of characters.                                                *)
(*  - A float is counted in eighths (n = 3 is 0.375): eighths are exact in *)
(*    binary floating point, so sums are exact and round(x, 2) is the      *)
(*    round-half-even of the exact value.  Returned amounts and            *)
(*    percentages are counted in hundredths (3333 is 33.33).               *)
(***************************************************************************)
EXTENDS Integers, Sequences, FiniteSets, TLC

VARIABLES
  users,    \* the users table (user_data_1.csv as loaded)
  games,    \* the games table (games_data_1.csv as loaded)
  reviews,  \* the reviews table (user_data_2.csv as loaded)
  call,     \* the last query and its argument
  ret,      \* what the last query returned or raised
  tallies,  \* positive and negative of the last num_user_review when it ended
  threads,  \* the local variables of each request served concurrently
  dataframe,\* the table (or value) a preparation function is given
  applied,  \* the preparation function last applied, with its arguments
  result    \* what that function returned or raised

vars == <<users, games, reviews, call, ret, tallies, threads, dataframe, applied, result>>

(***************************************************************************)
(* Bounds of the model.                                                    *)
(***************************************************************************)
MaxList == 2      \* longest item_id / recommend list of a cell
MaxPosted == 3    \* longest posted list of a review record
MaxRows == 2      \* most rows of the games table and of a many-row table
MaxCount == 3     \* largest items_count
MaxDay == 4       \* days of the calendar window the date ranges are drawn from
MaxRequests == 2  \* requests served at the same time

(***************************************************************************)
(* Python values.                                                          *)
(***************************************************************************)
NaN == [k |-> "nan", n |-> 0, s |-> <<>>, l |-> <<>>]
PyNone == [k |-> "none", n |-> 0, s |-> <<>>, l |-> <<>>]
PyInt(i) == [k |-> "int", n |-> i, s |-> <<>>, l |-> <<>>]
PyBool(b) == [k |-> "bool", n |-> IF b THEN 1 ELSE 0, s |-> <<>>, l |-> <<>>]
PyFloat(e) == [k |-> "float", n |-> e, s |-> <<>>, l |-> <<>>]
PyStr(t) == [k |-> "str", n |-> 0, s |-> t, l |-> <<>>]
PyList(items) == [k |-> "list", n |-> 0, s |-> <<>>, l |-> items]

\* bool(v): the truth value Python gives v in `if v:`.
Truthy(v) ==
  CASE v.k = "bool" -> v.n = 1
    [] v.k = "int" -> v.n # 0
    [] v.k = "float" -> v.n # 0
    [] v.k = "str" -> v.s # <<>>
    [] v.k \in {"list", "dict", "set", "tuple"} -> v.l # <<>>
    [] v.k = "none" -> FALSE
    [] OTHER -> TRUE

\* len(v) of a str is its number of characters, of a list its number of items.
RECURSIVE CharCount(_)
CharCount(t) == IF t = <<>> THEN 0 ELSE Len(Head(t)) + CharCount(Tail(t))

HasLen(v) == v.k \in {"str", "list"}
PyLen(v) == IF v.k = "str" THEN CharCount(v.s) ELSE Len(v.l)

(***************************************************************************)
(* Numbers as text.                                                        *)
(***************************************************************************)
Numbers == (0 .. 31) \cup {999} \cup (2019 .. 2021)
Pad2(n) == IF n < 10 THEN "0" \o ToString(n) ELSE ToString(n)
Pad4(n) ==
  IF n < 10 THEN "000" \o ToString(n)
  ELSE IF n < 100 THEN "00" \o ToString(n)
  ELSE IF n < 1000 THEN "0" \o ToString(n) ELSE ToString(n)

\* A decimal integer literal of Python: no leading zero.
IntOf == [t \in {ToString(n) : n \in Numbers} |->
            CHOOSE n \in Numbers : ToString(n) = t]

\* A numeric field of strptime: leading zero allowed.
FieldOf ==
  [t \in {ToString(n) : n \in Numbers} \cup {Pad2(n) : n \in Numbers}
         \cup {Pad4(n) : n \in Numbers} |->
     CHOOSE n \in Numbers : t \in {ToString(n), Pad2(n), Pad4(n)}]

(***************************************************************************)
(* ast.literal_eval on a text over the tokens [ ] { } : , ' blank, names,  *)
(* integers, True, False and None: list, dict and set displays, a tuple    *)
(* written without parentheses, quoted strings and constants.  The text is *)
(* parsed whole first (SyntaxError); then the nodes are converted in order *)
(* and the first node that fails decides: a name is a malformed node       *)
(* (ValueError), an unhashable key of a dict or element of a set is a      *)
(* TypeError.                                                              *)
(***************************************************************************)
PyDict(pairs) == [k |-> "dict", n |-> 0, s |-> <<>>, l |-> pairs]
PySet(items) == [k |-> "set", n |-> 0, s |-> <<>>, l |-> items]
PyTuple(items) == [k |-> "tuple", n |-> 0, s |-> <<>>, l |-> items]

\* An exception that leaves a call in place of a value.
Uncaught(e) == [k |-> "raised", n |-> 0, s |-> <<e>>, l |-> <<>>]

\* hash(v) is defined.
Hashable(v) == v.k \notin {"list", "dict", "set"}

\* a == b as keys: True is 1 and False is 0.
KeyEq(a, b) ==
  IF a.k \in {"int", "bool"} /\ b.k \in {"int", "bool"} THEN a.n = b.n ELSE a = b

\* d[key] = val on the pairs of a dict: the first key written stays, the value is
\* replaced.
DictPut(pairs, key, val) ==
  IF \E i \in 1 .. Len(pairs) : KeyEq(pairs[i][1], key)
  THEN [i \in 1 .. Len(pairs) |->
          IF KeyEq(pairs[i][1], key) THEN <<pairs[i][1], val>> ELSE pairs[i]]
  ELSE Append(pairs, <<key, val>>)

\* s.add(item) on the items of a set.
SetAdd(items, item) ==
  IF \E i \in 1 .. Len(items) : KeyEq(items[i], item) THEN items ELSE Append(items, item)

\* The tokens that are identifiers.
Names == {"bad", "hello", "date", "c", "free"}

RECURSIVE SkipWs(_, _)
SkipWs(t, i) == IF i <= Len(t) /\ t[i] = " " THEN SkipWs(t, i + 1) ELSE i

RECURSIVE CloseQuote(_, _)
CloseQuote(t, i) ==
  IF i > Len(t) THEN 0 ELSE IF t[i] = "'" THEN i ELSE CloseQuote(t, i + 1)

\* The outcome of reading one node: next is the position after it, 0 when the text
\* does not parse; err is the error its conversion raises, "" when it gives val.
ParseFail == [ok |-> FALSE, val |-> NaN, next |-> 0, err |-> "SyntaxError"]
Parsed(v, j) == [ok |-> TRUE, val |-> v, next |-> j, err |-> ""]
Converted(v, j, e) ==
  [ok |-> e = "", val |-> IF e = "" THEN v ELSE NaN, next |-> j, err |-> e]
FirstError(e1, e2) == IF e1 # "" THEN e1 ELSE e2

\* No key is waiting for its value.
NoKey == [val |-> NaN, err |-> "none"]

\* The object a display of the given kind builds from its items; "{}" is a dict.
Display(kind, items) ==
  IF kind = "list" THEN PyList(items)
  ELSE IF kind = "set" THEN PySet(items)
  ELSE IF kind = "tuple" THEN PyTuple(items)
  ELSE PyDict(items)

\* The bracket that ends a display of the given kind; a tuple ends with the text.
Closing(kind) == IF kind = "list" THEN "]" ELSE IF kind = "tuple" THEN "" ELSE "}"

\* The error of converting one item v of a display: a key (pair) is converted,
\* then its value v, then the pair is stored; an element of a set is converted,
\* then added.
ItemError(kind, key, v, pair) ==
  IF pair THEN
    FirstError(key.err, FirstError(v.err, IF Hashable(key.val) THEN "" ELSE "TypeError"))
  ELSE IF kind = "set" THEN FirstError(v.err, IF Hashable(v.val) THEN "" ELSE "TypeError")
  ELSE v.err

\* The items of a display with the item v stored.
ItemStored(kind, acc, key, v, pair) ==
  IF pair THEN DictPut(acc, key.val, v.val)
  ELSE IF kind = "set" THEN SetAdd(acc, v.val)
  ELSE Append(acc, v.val)

RECURSIVE ParseValue(_, _)
RECURSIVE ParseItems(_, _, _, _, _, _)
RECURSIVE ParseItem(_, _, _, _, _, _, _)
ParseValue(t, i0) ==
  LET i == SkipWs(t, i0) IN
  IF i > Len(t) THEN ParseFail
  ELSE IF t[i] \in {"[", "{"} THEN
    ParseItems(t, i + 1, IF t[i] = "[" THEN "list" ELSE "brace", <<>>, NoKey, "")
  ELSE IF t[i] = "'" THEN
    LET j == CloseQuote(t, i + 1) IN
    IF j = 0 THEN ParseFail ELSE Parsed(PyStr(SubSeq(t, i + 1, j - 1)), j + 1)
  ELSE IF t[i] = "True" THEN Parsed(PyBool(TRUE), i + 1)
  ELSE IF t[i] = "False" THEN Parsed(PyBool(FALSE), i + 1)
  ELSE IF t[i] = "None" THEN Parsed(PyNone, i + 1)
  ELSE IF t[i] \in DOMAIN IntOf THEN Parsed(PyInt(IntOf[t[i]]), i + 1)
  ELSE IF t[i] \in Names THEN Converted(NaN, i + 1, "ValueError")
  ELSE ParseFail

\* The items of a display, up to its closing bracket: of a list ("list"), of a
\* dict ("dict"), of a set ("set"), of "{...}" before its first item tells which
\* of the two it is ("brace"), and of a tuple written without parentheses
\* ("tuple").  key is the key of a pair whose value comes next.
ParseItems(t, i0, kind, acc, key, err) ==
  LET i == SkipWs(t, i0) IN
  IF i > Len(t) THEN
    IF kind = "tuple" THEN Converted(Display(kind, acc), i, err) ELSE ParseFail
  ELSE IF key = NoKey /\ t[i] = Closing(kind) THEN
    Converted(Display(kind, acc), i + 1, err)
  ELSE ParseItem(t, kind, acc, key, err, ParseValue(t, i), key # NoKey)

\* The display after its item v: ":" makes v the key of a pair, "," stores it and
\* goes on, the closing bracket stores it and ends the display.
ParseItem(t, kind, acc, key, err, v, pair) ==
  IF v.next = 0 THEN ParseFail
  ELSE
    LET j == SkipWs(t, v.next)
        tok == IF j > Len(t) THEN "" ELSE t[j]
        opens == ~pair /\ kind \in {"brace", "dict"} /\ tok = ":"
        kind2 == IF kind # "brace" THEN kind ELSE IF opens THEN "dict" ELSE "set"
        e == IF opens THEN err ELSE FirstError(err, ItemError(kind2, key, v, pair))
        items == IF opens \/ e # "" THEN acc ELSE ItemStored(kind2, acc, key, v, pair)
    IN  IF ~pair /\ kind = "dict" /\ ~opens THEN ParseFail
        ELSE IF opens \/ tok = "," THEN
          ParseItems(t, j + 1, kind2, items,
                     IF opens THEN [val |-> v.val, err |-> v.err] ELSE NoKey, e)
        ELSE IF tok = Closing(kind) THEN
          Converted(Display(kind2, items), IF kind = "tuple" THEN j ELSE j + 1, e)
        ELSE ParseFail

\* [ok, val, err]: the literal the whole text denotes (ok), or the error raised.
literal_eval(t) ==
  LET r == ParseValue(t, 1)
      j == SkipWs(t, r.next)
  IN  IF r.next = 0 THEN ParseFail
      ELSE IF j > Len(t) THEN r
      ELSE IF t[j] = "," THEN
        ParseItems(t, j + 1, "tuple", IF r.ok THEN <<r.val>> ELSE <<>>, NoKey, r.err)
      ELSE ParseFail

\* The except clause of safe_literal_eval: r is what literal_eval(v) gave.
Caught(v, r) ==
  IF r.ok THEN r.val
  ELSE IF r.err \in {"ValueError", "SyntaxError"} THEN v
  ELSE Uncaught(r.err)

\* api_utils.safe_literal_eval (data_analysis_utils has the same body): the
\* literal, or the argument itself when literal_eval raises ValueError or
\* SyntaxError (as it does for an argument that is not a str); any other error
\* leaves the call.
safe_literal_eval(v) == IF v.k = "str" THEN Caught(v, literal_eval(v.s)) ELSE v

(***************************************************************************)
(* datetime.strptime(text, "%Y-%m-%d") and str.split().                    *)
(***************************************************************************)
IsLeap(y) == (y % 4 = 0 /\ y % 100 # 0) \/ y % 400 = 0
DaysInMonth(y, m) ==
  IF m = 2 THEN (IF IsLeap(y) THEN 29 ELSE 28)
  ELSE IF m \in {4, 6, 9, 11} THEN 30 ELSE 31

\* [ok, d]: d = <<year, month, day>>, or ok = FALSE for the ValueError of a text
\* that is not a calendar date written year-month-day.
StrpFail == [ok |-> FALSE, d |-> <<0, 0, 0>>]
strptime(t) ==
  IF /\ Len(t) = 5
     /\ t[2] = "-" /\ t[4] = "-"
     /\ t[1] \in DOMAIN FieldOf /\ Len(t[1]) = 4 /\ FieldOf[t[1]] >= 1
     /\ t[3] \in DOMAIN FieldOf /\ Len(t[3]) <= 2 /\ FieldOf[t[3]] \in 1 .. 12
     /\ t[5] \in DOMAIN FieldOf /\ Len(t[5]) <= 2
     /\ FieldOf[t[5]] \in 1 .. DaysInMonth(FieldOf[t[1]], FieldOf[t[3]])
  THEN [ok |-> TRUE, d |-> <<FieldOf[t[1]], FieldOf[t[3]], FieldOf[t[5]]>>]
  ELSE StrpFail

\* a <= b on datetime objects.
DateLE(a, b) ==
  \/ a[1] < b[1]
  \/ a[1] = b[1] /\ a[2] < b[2]
  \/ a[1] = b[1] /\ a[2] = b[2] /\ a[3] <= b[3]

\* text.split(): the maximal runs of non-blank tokens.
RECURSIVE SplitFrom(_, _, _, _)
SplitFrom(t, i, word, words) ==
  IF i > Len(t) THEN (IF word = <<>> THEN words ELSE Append(words, word))
  ELSE IF t[i] = " " THEN
    SplitFrom(t, i + 1, <<>>, IF word = <<>> THEN words ELSE Append(words, word))
  ELSE SplitFrom(t, i + 1, Append(word, t[i]), words)

split(t) == SplitFrom(t, 1, <<>>, <<>>)

(***************************************************************************)
(* Results of a call: a returned pair, or the exception it raised.         *)
(***************************************************************************)
Returned(a, b) == [st |-> "returned", a |-> a, b |-> b]
Raised(e) == [st |-> e, a |-> 0, b |-> 0]
NoResult == [st |-> "none", a |-> 0, b |-> 0]

TypeError == "TypeError"
UnpackError == "ValueError: values to unpack"
InvalidFormatError ==
  "ValueError: Invalid date format in date_range. Use 'yyyy-mm-dd' format."

\* round(a / b) to the nearest integer, ties to even (a >= 0, b > 0): Python's
\* round(x, 2) with x counted in hundredths.
RoundHalfEven(a, b) ==
  LET q == a \div b
      r == a % b
  IN  IF 2 * r < b THEN q
      ELSE IF 2 * r > b THEN q + 1
      ELSE IF q % 2 = 0 THEN q ELSE q + 1

(***************************************************************************)
(* money_spent(user_id) over the users table U and the games table G.      *)
(***************************************************************************)
\* Mutant of user_data: the user id compared without regard to case.
Lower(u) == IF u = "U1" THEN "u1" ELSE u
user_data_caseless(U, user_id) == SelectSeq(U, LAMBDA r : Lower(r.user_id) = Lower(user_id))

\* users_dataframe.loc[users_dataframe['user_id'] == str(user_id)]
user_data(U, user_id) == SelectSeq(U, LAMBDA r : r.user_id = user_id)

\* user_data[col].values[0] if not user_data[col].isna().any() else 0
first_or_zero(rows, col) ==
  IF \E i \in 1 .. Len(rows) : rows[i][col] = NaN THEN PyInt(0) ELSE rows[1][col]

\* games_dataframe['id'] == id_value, for one row.
id_equals(cell, id_value) ==
  cell.k = "int" /\ id_value.k \in {"int", "bool"} /\ cell.n = id_value.n

matching_rows(G, id_value) == SelectSeq(G, LAMBDA g : id_equals(g.id, id_value))

\* Series.sum(): the null cells are skipped.
RECURSIVE price_sum(_)
price_sum(rows) ==
  IF rows = <<>> THEN 0
  ELSE (IF Head(rows).price = NaN THEN 0 ELSE Head(rows).price.n) + price_sum(Tail(rows))

\* Mutant of total_price_loop: the loop ends at the first id without a game row.
RECURSIVE total_price_loop_break(_, _, _)
total_price_loop_break(G, id_item, total_price) ==
  IF id_item = <<>> THEN total_price
  ELSE
    LET rows == matching_rows(G, Head(id_item)) IN
    IF rows = <<>> THEN total_price
    ELSE total_price_loop_break(G, Tail(id_item), total_price + price_sum(rows))

\* for id_value in id_item: ... total_price += matching_rows['price'].sum()
RECURSIVE total_price_loop(_, _, _)
total_price_loop(G, id_item, total_price) ==
  IF id_item = <<>> THEN total_price
  ELSE
    LET rows == matching_rows(G, Head(id_item)) IN
    total_price_loop(G, Tail(id_item),
                     IF rows # <<>> THEN total_price + price_sum(rows) ELSE total_price)

\* Mutant of num_rcmnd_loop: every entry is counted, truthy or not.
num_rcmnd_loop_all(id_recommend, num_rcmnd) == num_rcmnd + Len(id_recommend)

\* for id_rcmnd in id_recommend: if id_rcmnd: num_rcmnd += 1
RECURSIVE num_rcmnd_loop(_, _)
num_rcmnd_loop(id_recommend, num_rcmnd) ==
  IF id_recommend = <<>> THEN num_rcmnd
  ELSE num_rcmnd_loop(Tail(id_recommend),
                      IF Truthy(Head(id_recommend)) THEN num_rcmnd + 1 ELSE num_rcmnd)

\* round(100 * (num / den), 2), in hundredths.
round_percentage(num, den) == RoundHalfEven(100 * 100 * num, den)

\* round(total_price, 2), in hundredths, of an amount counted in eighths.
round_price(eighths) == RoundHalfEven(100 * eighths, 8)

money_spent(U, G, user_id) ==
  LET rows == user_data(U, user_id)
      found == rows # <<>>
      id_item == IF found THEN safe_literal_eval(first_or_zero(rows, "item_id"))
                 ELSE PyInt(0)
      id_recommend == IF found THEN safe_literal_eval(first_or_zero(rows, "recommend"))
                      ELSE PyInt(0)
      id_items_count == IF found THEN first_or_zero(rows, "items_count") ELSE PyInt(0)
      total_price == IF id_item.k = "list" /\ Len(id_item.l) # 0
                     THEN total_price_loop(G, id_item.l, 0) ELSE 0
      num_rcmnd == IF id_recommend.k = "list" /\ Len(id_recommend.l) # 0
                   THEN num_rcmnd_loop(id_recommend.l, 0) ELSE 0
      percentage == IF id_items_count.n # 0
                    THEN round_percentage(num_rcmnd, id_items_count.n) ELSE 0
  IN  IF id_item.k = "raised" \/ id_recommend.k = "raised" THEN Raised(TypeError)
      ELSE Returned(round_price(total_price), percentage)

(***************************************************************************)
(* num_user_review(dates) over the reviews table R.                        *)
(***************************************************************************)
\* Mutant of date_entry: the end of the range is excluded.
date_entry_exclusive_end(entry, start_date, end_date) ==
  IF entry.k # "str" THEN [err |-> TRUE, hit |-> FALSE]
  ELSE
    LET p == strptime(entry.s) IN
    [err |-> FALSE,
     hit |-> p.ok /\ DateLE(start_date, p.d) /\ DateLE(p.d, end_date) /\ p.d # end_date]

\* date_in_range, one entry of dates_list: [err, hit]; err is the TypeError
\* strptime raises for an entry that is not a str (only ValueError is caught).
date_entry(entry, start_date, end_date) ==
  IF entry.k # "str" THEN [err |-> TRUE, hit |-> FALSE]
  ELSE
    LET p == strptime(entry.s) IN
    [err |-> FALSE,
     hit |-> p.ok /\ DateLE(start_date, p.d) /\ DateLE(p.d, end_date)]

\* for indx_date, date_str in enumerate(dates_list): the indices (from 0) appended
\* to idx_valid_dates, and whether the loop raised.
RECURSIVE date_loop(_, _, _, _, _)
date_loop(items, i, start_date, end_date, idx_valid_dates) ==
  IF i > Len(items) THEN [err |-> FALSE, idx |-> idx_valid_dates]
  ELSE
    LET e == date_entry(items[i], start_date, end_date) IN
    IF e.err THEN [err |-> TRUE, idx |-> <<>>]
    ELSE date_loop(items, i + 1, start_date, end_date,
                   IF e.hit THEN Append(idx_valid_dates, i - 1) ELSE idx_valid_dates)

\* date_in_range(dates_list, start_date, end_date): v_in_list is idx # <<>>.  A str
\* is iterated character by character, and no single character parses as a date;
\* any other value that is not a list cannot be iterated (TypeError).
date_in_range(dates_list, start_date, end_date) ==
  IF dates_list.k = "list" THEN date_loop(dates_list.l, 1, start_date, end_date, <<>>)
  ELSE IF dates_list.k = "str" THEN [err |-> FALSE, idx |-> <<>>]
  ELSE [err |-> TRUE, idx |-> <<>>]

\* row["recommend"][idx]: an item of a list, a character of a str.
recommend_at(recommend, idx) ==
  IF recommend.k = "list" THEN recommend.l[idx + 1] ELSE PyStr(<<"c">>)

\* Mutant of tally_loop: an index past the end of recommend counts as negative.
RECURSIVE tally_loop_missing_negative(_, _, _)
tally_loop_missing_negative(recommend, idx_dates, acc) ==
  IF idx_dates = <<>> THEN acc
  ELSE IF ~HasLen(recommend) THEN [acc EXCEPT !.err = TRUE]
  ELSE
    LET idx == Head(idx_dates) IN
    tally_loop_missing_negative(recommend, Tail(idx_dates),
      IF idx < PyLen(recommend) /\ Truthy(recommend_at(recommend, idx))
      THEN [acc EXCEPT !.positive = @ + 1]
      ELSE [acc EXCEPT !.negative = @ + 1])

\* for idx in idx_dates: if idx < len(row["recommend"]): ...
RECURSIVE tally_loop(_, _, _)
tally_loop(recommend, idx_dates, acc) ==
  IF idx_dates = <<>> THEN acc
  ELSE IF ~HasLen(recommend) THEN [acc EXCEPT !.err = TRUE]
  ELSE
    LET idx == Head(idx_dates) IN
    tally_loop(recommend, Tail(idx_dates),
      IF idx < PyLen(recommend) THEN
        (IF Truthy(recommend_at(recommend, idx))
         THEN [acc EXCEPT !.positive = @ + 1]
         ELSE [acc EXCEPT !.negative = @ + 1])
      ELSE acc)

\* Mutant of review_loop: count grows by one per date in range, not per record.
RECURSIVE review_loop_per_date(_, _, _, _)
review_loop_per_date(rows, start_date, end_date, acc) ==
  IF rows = <<>> \/ acc.err THEN acc
  ELSE
    LET row == Head(rows)
        r == date_in_range(row.posted, start_date, end_date)
    IN  IF r.err THEN [acc EXCEPT !.err = TRUE]
        ELSE review_loop_per_date(Tail(rows), start_date, end_date,
               tally_loop(row.recommend, r.idx, [acc EXCEPT !.count = @ + Len(r.idx)]))

\* for idx_row, row in recommendations_df.iterrows(): ...
RECURSIVE review_loop(_, _, _, _)
review_loop(rows, start_date, end_date, acc) ==
  IF rows = <<>> \/ acc.err THEN acc
  ELSE
    LET row == Head(rows)
        r == date_in_range(row.posted, start_date, end_date)
    IN  IF r.err THEN [acc EXCEPT !.err = TRUE]
        ELSE review_loop(Tail(rows), start_date, end_date,
               tally_loop(row.recommend, r.idx,
                          IF r.idx # <<>> THEN [acc EXCEPT !.count = @ + 1] ELSE acc))

\* recommendations_df.applymap(safe_literal_eval)
applymap(R) ==
  [i \in 1 .. Len(R) |->
     [posted |-> safe_literal_eval(R[i].posted),
      recommend |-> safe_literal_eval(R[i].recommend)]]

\* Mutant of review_percentage: the percentage is cut to 2 decimals, not rounded.
review_percentage_truncated(positive, negative) ==
  IF positive + negative # 0
  THEN (100 * 100 * positive) \div (positive + negative)
  ELSE 0

\* if positive + negative != 0: ... round(percentage, 2)
review_percentage(positive, negative) ==
  IF positive + negative # 0
  THEN round_percentage(positive, positive + negative)
  ELSE 0

NoTally == [err |-> FALSE, count |-> 0, positive |-> 0, negative |-> 0]

\* The counters when the function ends: [raised, err, count, positive, negative];
\* raised is the error raised before the loop (by the decoding of a cell or by the
\* argument), err the TypeError of the loop.
review_run(R, dates) ==
  LET recommendations_df == applymap(R)
      words == split(dates)
  IN
  IF \E i \in 1 .. Len(R) :
       "raised" \in {recommendations_df[i].posted.k, recommendations_df[i].recommend.k}
  THEN [raised |-> TypeError, t |-> NoTally]
  ELSE IF Len(words) # 2 THEN [raised |-> UnpackError, t |-> NoTally]
  ELSE
    LET start_date == strptime(words[1])
        end_date == strptime(words[2])
    IN
    IF ~start_date.ok \/ ~end_date.ok THEN [raised |-> InvalidFormatError, t |-> NoTally]
    ELSE [raised |-> "",
          t |-> review_loop(recommendations_df, start_date.d, end_date.d, NoTally)]

num_user_review(R, dates) ==
  LET run == review_run(R, dates) IN
  IF run.raised # "" THEN Raised(run.raised)
  ELSE IF run.t.err THEN Raised(TypeError)
  ELSE Returned(run.t.count, review_percentage(run.t.positive, run.t.negative))

(***************************************************************************)
(* The tables a run starts from.  A cell of a CSV file holds the text      *)
(* Python prints for the value (Repr), some other text, or nothing (NaN).  *)
(***************************************************************************)
SeqsUpTo(S, n) == UNION {[1 .. k -> S] : k \in 0 .. n}

RECURSIVE Repr(_)
RECURSIVE ReprItems(_)
RECURSIVE ReprPairs(_)
ReprPairs(pairs) ==
  IF pairs = <<>> THEN <<>>
  ELSE Repr(pairs[1][1]) \o <<":", " ">> \o Repr(pairs[1][2])
         \o (IF Len(pairs) = 1 THEN <<>> ELSE <<",", " ">> \o ReprPairs(Tail(pairs)))

ReprItems(items) ==
  IF items = <<>> THEN <<>>
  ELSE IF Len(items) = 1 THEN Repr(items[1])
  ELSE Repr(items[1]) \o <<",", " ">> \o ReprItems(Tail(items))

Repr(v) ==
  CASE v.k = "int" -> <<ToString(v.n)>>
    [] v.k = "bool" -> <<IF v.n = 1 THEN "True" ELSE "False">>
    [] v.k = "none" -> <<"None">>
    [] v.k = "str" -> <<"'">> \o v.s \o <<"'">>
    [] v.k = "list" -> <<"[">> \o ReprItems(v.l) \o <<"]">>
    [] v.k = "dict" -> <<"{">> \o ReprPairs(v.l) \o <<"}">>

ListCells(S, n) == {PyStr(Repr(PyList(l))) : l \in SeqsUpTo(S, n)}
Junk == PyStr(<<"bad">>)

\* The calendar window: day 1 is 2020-01-30, so the window crosses a month.
NextDay(d) ==
  IF d[3] < DaysInMonth(d[1], d[2]) THEN <<d[1], d[2], d[3] + 1>>
  ELSE IF d[2] < 12 THEN <<d[1], d[2] + 1, 1>>
  ELSE <<d[1] + 1, 1, 1>>

RECURSIVE DayDate(_)
DayDate(i) == IF i = 1 THEN <<2020, 1, 30>> ELSE NextDay(DayDate(i - 1))

DateText(d) == <<ToString(d[1]), "-", Pad2(d[2]), "-", Pad2(d[3])>>
BadDate == <<"bad", "-", "date">>

UserIds == {"u1", "U1"}
QueryIds == UserIds \cup {"zz"}
GameIds == {1, 2}
ItemIds == GameIds \cup {9}

ItemCells == ListCells({PyInt(i) : i \in ItemIds}, MaxList) \cup {NaN, Junk, PyStr(<<"7">>)}
RecommendCells ==
  ListCells({PyBool(TRUE), PyBool(FALSE)}, MaxList) \cup {NaN, Junk, PyStr(<<"True">>)}
CountCells == {PyInt(c) : c \in 0 .. MaxCount} \cup {NaN}
GameRows == [id : {PyInt(i) : i \in GameIds}, price : {NaN, PyFloat(1), PyFloat(3)}]
GameTables == SeqsUpTo(GameRows, MaxRows)

UserRow(u, item, rec, cnt) ==
  [user_id |-> u, item_id |-> item, recommend |-> rec, items_count |-> cnt]

\* One user, every item_id cell, every games table.
PriceTables ==
  {<<UserRow("u1", c, PyStr(Repr(PyList(<<PyBool(TRUE)>>))), PyInt(1))>> : c \in ItemCells}
    \X GameTables
\* One user, every recommend cell and items_count.
PercentageTables ==
  {<<UserRow("u1", PyStr(Repr(PyList(<<PyInt(1)>>))), r, c)>> :
     r \in RecommendCells, c \in CountCells}
    \X {<<[id |-> PyInt(1), price |-> PyFloat(3)]>>}
\* Several rows, user ids repeated or not.
FewUserRows ==
  {UserRow(u, i, r, c) :
     u \in UserIds,
     i \in {NaN, PyStr(Repr(PyList(<<PyInt(1)>>)))},
     r \in {NaN, PyStr(Repr(PyList(<<PyBool(TRUE)>>)))},
     c \in {NaN, PyInt(2)}}
ManyUserTables ==
  (UNION {[1 .. k -> FewUserRows] : k \in 2 .. MaxRows})
    \X {<<[id |-> PyInt(1), price |-> PyFloat(3)]>>}

PostedItems ==
  {PyStr(DateText(DayDate(2))), PyStr(DateText(DayDate(3))), PyStr(BadDate)}
\* Posted lists with an entry that is not a text.
NonTextPosted ==
  {PyStr(Repr(PyList(l))) :
     l \in {<<PyNone>>, <<PyStr(DateText(DayDate(2))), PyNone>>,
            <<PyNone, PyStr(DateText(DayDate(2)))>>}}
PostedCells == ListCells(PostedItems, MaxPosted) \cup NonTextPosted \cup {NaN, Junk}
ReviewRecommendCells == ListCells({PyBool(TRUE), PyBool(FALSE)}, MaxList) \cup {NaN, Junk}
\* One record, every posted and recommend cell.
OneReviewTables ==
  {<<[posted |-> p, recommend |-> r]>> : p \in PostedCells, r \in ReviewRecommendCells}
\* Several records.
FewReviewRows ==
  [posted : {PyStr(Repr(PyList(<<PyStr(DateText(DayDate(2)))>>))),
             PyStr(Repr(PyList(<<PyStr(DateText(DayDate(2))), PyStr(DateText(DayDate(3)))>>))),
             NaN},
   recommend : {PyStr(Repr(PyList(<<PyBool(TRUE)>>))),
                PyStr(Repr(PyList(<<PyBool(FALSE), PyBool(TRUE)>>)))}]
ManyReviewTables == UNION {[1 .. k -> FewReviewRows] : k \in 2 .. MaxRows}

\* The arguments of num_user_review: every range of the window, and texts that
\* are not two dates.
RangeText(i, j) == DateText(DayDate(i)) \o <<" ">> \o DateText(DayDate(j))
RangeArgs == {RangeText(i, j) : i, j \in 1 .. MaxDay}
OtherArgs ==
  {<<>>,
   DateText(DayDate(2)),
   RangeText(2, 3) \o <<" ">> \o DateText(DayDate(3)),
   BadDate \o <<" ">> \o DateText(DayDate(3)),
   DateText(DayDate(2)) \o <<" ">> \o <<"2020", "-", "02", "-", "30">>,
   <<"2020", "-", "1", "-", "31", " ", " ", "2020", "-", "2", "-", "1">>}
DateArgs == RangeArgs \cup OtherArgs

(***************************************************************************)
(* The state machine: the tables are read, never written; a query is one   *)
(* step.                                                                   *)
(***************************************************************************)
NoCall == [op |-> "none", user_id |-> "", dates |-> <<>>]
ZeroTallies == [positive |-> 0, negative |-> 0]

Requests == 1 .. MaxRequests

\* The local variables of a call that has not started.
IdleFrame ==
  [pc |-> "idle", op |-> "none", user_id |-> "", dates |-> <<>>,
   users_dataframe |-> <<>>, games_dataframe |-> <<>>, recommendations_df |-> <<>>,
   ret |-> NoResult]

\* No request is being served on a thread.
NoThreads == [r \in Requests |-> IdleFrame]
\* No preparation function has been applied.
NotApplied == [fn |-> "none"]
NoPreparation == dataframe = <<>> /\ applied = NotApplied /\ result = NoResult

InitCalls == call = NoCall /\ ret = NoResult /\ tallies = ZeroTallies

\* The query engine's machines run no preparation and serve no concurrent request.
QueryOnly == threads = NoThreads /\ NoPreparation

InitMoney ==
  /\ \E t \in PriceTables \cup PercentageTables \cup ManyUserTables :
       users = t[1] /\ games = t[2]
  /\ reviews = <<>>
  /\ InitCalls
  /\ QueryOnly

InitReview ==
  /\ users = <<>> /\ games = <<>>
  /\ reviews \in OneReviewTables \cup ManyReviewTables \cup {<<>>}
  /\ InitCalls
  /\ QueryOnly

Init == InitMoney \/ InitReview

\* A request is served to its end before the next one starts (the route layer
\* of src/main.py calls the query and returns its result).
MoneySpentCall ==
  \E user_id \in QueryIds :
    /\ call = NoCall
    /\ call' = [op |-> "money_spent", user_id |-> user_id, dates |-> <<>>]
    /\ ret' = money_spent(users, games, user_id)
    /\ tallies' = ZeroTallies
    /\ UNCHANGED <<users, games, reviews, threads, dataframe, applied, result>>

NumUserReviewCall ==
  \E dates \in DateArgs :
    /\ call = NoCall
    /\ call' = [op |-> "num_user_review", user_id |-> "", dates |-> dates]
    /\ ret' = num_user_review(reviews, dates)
    /\ tallies' = LET t == review_run(reviews, dates).t
                  IN  [positive |-> t.positive, negative |-> t.negative]
    /\ UNCHANGED <<users, games, reviews, threads, dataframe, applied, result>>

\* The response is sent and the locals of the call are gone.
Respond ==
  /\ call # NoCall
  /\ call' = NoCall /\ ret' = NoResult /\ tallies' = ZeroTallies
  /\ UNCHANGED <<users, games, reviews, threads, dataframe, applied, result>>

Next == MoneySpentCall \/ NumUserReviewCall \/ Respond

Spec == Init /\ [][Next]_vars
SpecMoney == InitMoney /\ [][MoneySpentCall \/ Respond]_vars
SpecReview == InitReview /\ [][NumUserReviewCall \/ Respond]_vars

(***************************************************************************)
(* Properties of money_spent (checked under SpecMoney).                    *)
(***************************************************************************)
RECURSIVE SumOf(_, _)
SumOf(f, n) == IF n = 0 THEN 0 ELSE f[n] + SumOf(f, n - 1)

MoneyCalled == call.op = "money_spent"
UserAbsent == \A i \in 1 .. Len(users) : users[i].user_id # call.user_id
UserRows == {i \in 1 .. Len(users) : users[i].user_id = call.user_id}

\* What the call reads of the user: the cell of the first row with the user id,
\* decoded; 0 when a row with the user id has a null in the column.
UserCell(col) ==
  LET first == CHOOSE i \in UserRows : \A j \in UserRows : i <= j IN
  IF \E i \in UserRows : users[i][col] = NaN THEN PyInt(0)
  ELSE IF col = "items_count" THEN users[first][col]
  ELSE safe_literal_eval(users[first][col])

\* C1: for a user_id that matches no row of the users table, money_spent returns
\* (0, 0), whatever the games table holds, and raises nothing.
C1_AbsentUserReturnsZero ==
  (MoneyCalled /\ UserAbsent) => ret = Returned(0, 0)

C1_Witness ==
  /\ MoneyCalled /\ UserAbsent
  /\ call.user_id = "U1" /\ Len(users) = 1 /\ users[1].user_id = "u1"
  /\ \E j \in 1 .. Len(games) : games[j].price # NaN
  /\ ret = Returned(0, 0)

\* The price the games table G gives the id: the prices of all its rows with that
\* id, null prices not counted; 0 when no row has the id.
GamePrice(G, id) ==
  SumOf([j \in 1 .. Len(G) |->
           IF G[j].id = id /\ G[j].price # NaN THEN G[j].price.n ELSE 0], Len(G))

ListTotal(G, ids) == SumOf([i \in 1 .. Len(ids) |-> GamePrice(G, ids[i])], Len(ids))

HasGame(G, id) == \E j \in 1 .. Len(G) : G[j].id = id

\* The users table with the item_id of the queried user replaced by the list ids.
WithItems(ids) ==
  [i \in 1 .. Len(users) |->
     IF i \in UserRows THEN [users[i] EXCEPT !.item_id = PyStr(Repr(PyList(ids)))]
     ELSE users[i]]

OnlyMatched(ids) == SelectSeq(ids, LAMBDA id : HasGame(games, id))
NoSuchGame == PyInt(9)

\* C2: when the user's item_id decodes to a non-empty list, the total_price returned
\* is the sum over the ids of the list of the price of the id in the games table
\* (rounded to 2 decimals, as both outputs are); an id without a game row adds 0
\* and raises nothing, so the result is the same with the unmatched ids removed
\* from item_id and with one more unmatched id added to it.
C2_TotalIsSumOfMatchedPrices ==
  (/\ MoneyCalled /\ ~UserAbsent
   /\ UserCell("item_id").k = "list" /\ UserCell("item_id").l # <<>>)
  => LET ids == UserCell("item_id").l IN
     /\ ret.st = "returned"
     /\ 2 * ret.a * 8 - 2 * 100 * ListTotal(games, ids) \in -8 .. 8
     /\ ret = money_spent(WithItems(OnlyMatched(ids)), games, call.user_id)
     /\ ~HasGame(games, NoSuchGame)
     /\ ret = money_spent(WithItems(Append(ids, NoSuchGame)), games, call.user_id)

C2_Witness ==
  /\ MoneyCalled /\ ~UserAbsent
  /\ UserCell("item_id").k = "list" /\ Len(UserCell("item_id").l) = 2
  /\ \E i, j \in 1 .. 2 :
       /\ ~HasGame(games, UserCell("item_id").l[i])
       /\ GamePrice(games, UserCell("item_id").l[j]) > 0
  /\ Len(games) = 2 /\ games[1].id = games[2].id
  /\ ret.a > 0

\* The truthy entries of a decoded recommend cell; 0 when it is no list.
TruthyCount(v) ==
  IF v.k = "list" THEN Cardinality({i \in 1 .. Len(v.l) : Truthy(v.l[i])}) ELSE 0

ItemsCount == IF UserAbsent THEN 0 ELSE UserCell("items_count").n
RecommendCount == IF UserAbsent THEN 0 ELSE TruthyCount(UserCell("recommend"))

\* C3: the percentage returned by money_spent is 100 * (truthy entries of the
\* decoded recommend list) / items_count (to the nearest hundredth, as both outputs
\* are rounded to 2 decimals) when items_count is not 0, and 0 when it is 0; the
\* truthy count is 0 when recommend does not decode to a non-empty list.
C3_PercentageOfItemsCount ==
  MoneyCalled =>
    /\ ret.st = "returned"
    /\ ItemsCount = 0 => ret.b = 0
    /\ ItemsCount # 0 =>
         2 * (ret.b * ItemsCount - 100 * 100 * RecommendCount) \in -ItemsCount .. ItemsCount

C3_Witness ==
  /\ MoneyCalled /\ ~UserAbsent
  /\ UserCell("recommend").k = "list" /\ Len(UserCell("recommend").l) = 2
  /\ RecommendCount = 1 /\ ItemsCount = 3
  /\ ret.b = 3333

\* C4: the recommendation percentage returned by money_spent and by num_user_review
\* is between 0 and 100 inclusive, for every content of the tables.
C4_PercentageWithin0And100 ==
  ret.st = "returned" => ret.b \in 0 .. 100 * 100

(***************************************************************************)
(* Properties of num_user_review (checked under SpecReview).               *)
(***************************************************************************)
ReviewCalled == call.op = "num_user_review"
Words == split(call.dates)
WellFormed ==
  LET w == Words IN Len(w) = 2 /\ strptime(w[1]).ok /\ strptime(w[2]).ok
ReviewReturned == ReviewCalled /\ ret.st = "returned"

\* The range of a well-formed argument, and the table with its cells decoded.
Range == LET w == Words IN [start |-> strptime(w[1]).d, end |-> strptime(w[2]).d]
Decoded ==
  [i \in 1 .. Len(reviews) |->
     [posted |-> safe_literal_eval(reviews[i].posted),
      recommend |-> safe_literal_eval(reviews[i].recommend)]]

\* The entry is a text that parses as a date of the range rg.
EntryInRange(e, rg) ==
  /\ e.k = "str"
  /\ LET p == strptime(e.s) IN p.ok /\ DateLE(rg.start, p.d) /\ DateLE(p.d, rg.end)

\* The positions (from 1) of the entries of a decoded posted cell in the range.
Matching(posted, rg) ==
  IF posted.k = "list"
  THEN {j \in 1 .. Len(posted.l) : EntryInRange(posted.l[j], rg)}
  ELSE {}

Counted(D, rg) == {i \in 1 .. Len(D) : Matching(D[i].posted, rg) # {}}

\* C5: the count returned by num_user_review is the number of review records with
\* at least one posted entry that parses as a date inside [start, end]: a record
\* with several such entries adds exactly 1, a record with none adds 0.
C5_CountIsRecordsInRange ==
  ReviewReturned => ret.a = Cardinality(Counted(Decoded, Range))

C5_Witness ==
  /\ ReviewReturned /\ Len(reviews) = 2
  /\ LET D == Decoded
         rg == Range
     IN  /\ Cardinality(Matching(D[1].posted, rg)) = 2
         /\ Cardinality(Matching(D[2].posted, rg)) = 1
  /\ ret.a = 2

\* The dates of the entries of a decoded posted cell that parse.
PostedDates(posted) ==
  IF posted.k = "list"
  THEN {strptime(posted.l[j].s).d :
          j \in {n \in 1 .. Len(posted.l) : strptime(posted.l[n].s).ok}}
  ELSE {}

\* C6: inclusion in the date range is inclusive on both endpoints: a posted date
\* equal to the start or to the end of the range is in range, a date one day before
\* start or one day after end is not.  So, in a range with start <= end, a record
\* whose only date is the start or the end is counted, and a record whose only date
\* is the day before start or the day after end is not.
C6_RangeInclusiveAtBothEnds ==
  (ReviewReturned /\ Len(reviews) = 1) =>
    LET rg == Range
        dates == PostedDates(Decoded[1].posted)
    IN  /\ (DateLE(rg.start, rg.end) /\ dates \in {{rg.start}, {rg.end}}) => ret.a = 1
        /\ (\E d \in dates : dates = {d} /\ (NextDay(d) = rg.start \/ d = NextDay(rg.end)))
             => ret.a = 0

C6_Witness ==
  /\ ReviewReturned /\ Len(reviews) = 1
  /\ PostedDates(Decoded[1].posted) = {Range.end}
  /\ Range.start # Range.end
  /\ ret.a = 1

\* The other side of C6, reached too: the only date is the day after the end.
C6_WitnessDayAfter ==
  /\ ReviewReturned /\ Len(reviews) = 1
  /\ PostedDates(Decoded[1].posted) = {NextDay(Range.end)}
  /\ DateLE(Range.start, Range.end)
  /\ ret.a = 0

\* The number of in-range entries of the table whose position is an index of the
\* record's recommend list, by the truth of recommend at that position.
Tallied(D, rg, truth) ==
  SumOf([i \in 1 .. Len(D) |->
           Cardinality({j \in Matching(D[i].posted, rg) :
                          /\ D[i].recommend.k = "list"
                          /\ j <= Len(D[i].recommend.l)
                          /\ Truthy(D[i].recommend.l[j]) = truth})],
        Len(D))

ListRecommends(D, rg) == \A i \in Counted(D, rg) : D[i].recommend.k = "list"

ExampleRecord ==
  [posted |-> PyStr(Repr(PyList(<<PyStr(DateText(DayDate(2))), PyStr(BadDate),
                                  PyStr(DateText(DayDate(3)))>>))),
   recommend |-> PyStr(Repr(PyList(<<PyBool(TRUE), PyBool(FALSE)>>)))]

\* C7: an in-range posted entry at position i is tallied (positive when recommend[i]
\* is truthy, negative otherwise) exactly when i is an index of the same record's
\* recommend list; in-range positions past the end of recommend are skipped without
\* error and unparseable posted texts are neither counted nor tallied.  So
\* posted = [date, "bad-date", date] with recommend = [True, False] and both dates
\* in range counts the record once and tallies only index 0: the result is (1, 100).
C7_TalliesOnlyValidIndices ==
  ReviewReturned =>
    LET D == Decoded
        rg == Range
    IN  ListRecommends(D, rg) =>
          /\ tallies.positive = Tallied(D, rg, TRUE)
          /\ tallies.negative = Tallied(D, rg, FALSE)
          /\ (reviews = <<ExampleRecord>> /\ Matching(D[1].posted, rg) = {1, 3})
               => (ret = Returned(1, 100 * 100) /\ tallies = [positive |-> 1, negative |-> 0])

C7_Witness ==
  /\ ReviewReturned /\ reviews = <<ExampleRecord>>
  /\ Matching(Decoded[1].posted, Range) = {1, 3}
  /\ ret = Returned(1, 100 * 100) /\ tallies = [positive |-> 1, negative |-> 0]

\* C8: the percentage returned by num_user_review is 100 * positives / (positives +
\* negatives) over all tallies of all records (to the nearest hundredth), and 0 when
\* there is no tally, also when records are counted and none of their in-range
\* indices is an index of recommend.
C8_PercentageOfTallies ==
  ReviewReturned =>
    LET total == tallies.positive + tallies.negative IN
    /\ total = 0 => ret.b = 0
    /\ total # 0 => 2 * (ret.b * total - 100 * 100 * tallies.positive) \in -total .. total
    /\ LET D == Decoded
           rg == Range
       IN  ListRecommends(D, rg) => total = Tallied(D, rg, TRUE) + Tallied(D, rg, FALSE)

C8_Witness ==
  /\ ReviewReturned /\ Len(reviews) = 2
  /\ tallies = [positive |-> 2, negative |-> 1]
  /\ ret = Returned(2, 6667)

\* C9: num_user_review fails with the invalid-format error, and returns no result,
\* whenever its argument is not two whitespace-separated tokens that each parse as a
\* yyyy-mm-dd date, arguments of one token or of three or more tokens included.
C9_MalformedRangeRaisesInvalidFormat ==
  (ReviewCalled /\ ~WellFormed) => ret = Raised(InvalidFormatError)

\* C10: data-quality gaps never make a query fail: for every table, null cells and
\* posted lists with entries that are not texts included, money_spent with any
\* user_id and num_user_review with any well-formed date range return a pair.
C10_QueriesAlwaysReturn ==
  (MoneyCalled \/ (ReviewCalled /\ WellFormed)) => ret.st = "returned"

(***************************************************************************)
(* Concurrent requests.  The routes of src/main.py are plain functions, so *)
(* the server runs each request on its own thread.  A call of a query has  *)
(* its own local variables; it reads the dataset files through the         *)
(* module-level paths and writes nothing but its locals.                   *)
(***************************************************************************)
\* Mutant of frame: the variables of the calls are module-level, one set for all.
frame_shared(T, r) == T[1]

\* The local variables of the call that serves request r.
frame(T, r) == T[r]

ConcurrentUsers ==
  {<<UserRow("u1", PyStr(Repr(PyList(<<PyInt(1), PyInt(2)>>))),
             PyStr(Repr(PyList(<<PyBool(TRUE)>>))), PyInt(2))>>,
   <<UserRow("U1", PyStr(Repr(PyList(<<PyInt(2)>>))), NaN, PyInt(1)),
     UserRow("u1", PyStr(Repr(PyList(<<PyInt(1)>>))),
             PyStr(Repr(PyList(<<PyBool(TRUE), PyBool(FALSE)>>))), PyInt(3))>>}
ConcurrentGames ==
  {<<[id |-> PyInt(1), price |-> PyFloat(3)], [id |-> PyInt(2), price |-> PyFloat(1)]>>}
ConcurrentReviews ==
  {<<[posted |-> PyStr(Repr(PyList(<<PyStr(DateText(DayDate(2))), PyStr(BadDate),
                                     PyStr(DateText(DayDate(3)))>>))),
      recommend |-> PyStr(Repr(PyList(<<PyBool(TRUE), PyBool(FALSE)>>)))]>>,
   <<[posted |-> PyStr(Repr(PyList(<<PyStr(DateText(DayDate(2)))>>))),
      recommend |-> PyStr(Repr(PyList(<<PyBool(FALSE)>>)))],
     [posted |-> PyStr(Repr(PyList(<<PyStr(DateText(DayDate(3)))>>))),
      recommend |-> PyStr(Repr(PyList(<<PyBool(TRUE)>>)))]>>}
ConcurrentDates == {RangeText(2, 3), RangeText(1, 2), DateText(DayDate(2))}

InitConcurrent ==
  /\ users \in ConcurrentUsers /\ games \in ConcurrentGames
  /\ reviews \in ConcurrentReviews
  /\ InitCalls /\ NoPreparation
  /\ threads = NoThreads

\* userdata(user_id) calls money_spent(user_id).
CallMoneySpent(r) ==
  \E user_id \in QueryIds :
    /\ threads[r].pc = "idle"
    /\ threads' = [threads EXCEPT ![r] =
                     [IdleFrame EXCEPT !.pc = "called", !.op = "money_spent",
                                       !.user_id = user_id]]
    /\ UNCHANGED <<users, games, reviews, call, ret, tallies, dataframe, applied, result>>

\* countreviews(dates) calls num_user_review(dates).
CallNumUserReview(r) ==
  \E dates \in ConcurrentDates :
    /\ threads[r].pc = "idle"
    /\ threads' = [threads EXCEPT ![r] =
                     [IdleFrame EXCEPT !.pc = "called", !.op = "num_user_review",
                                       !.dates = dates]]
    /\ UNCHANGED <<users, games, reviews, call, ret, tallies, dataframe, applied, result>>

\* users_dataframe = pd.read_csv(path_1u)
ReadUsers(r) ==
  LET f == frame(threads, r) IN
  /\ threads[r].pc = "called" /\ f.op = "money_spent"
  /\ threads' = [threads EXCEPT ![r] =
                   [f EXCEPT !.pc = "read_users", !.users_dataframe = users]]
  /\ UNCHANGED <<users, games, reviews, call, ret, tallies, dataframe, applied, result>>

\* games_dataframe = pd.read_csv(path_1g)
ReadGames(r) ==
  LET f == frame(threads, r) IN
  /\ threads[r].pc = "read_users"
  /\ threads' = [threads EXCEPT ![r] =
                   [f EXCEPT !.pc = "read", !.games_dataframe = games]]
  /\ UNCHANGED <<users, games, reviews, call, ret, tallies, dataframe, applied, result>>

\* recommendations_df = pd.read_csv(path_2u)
ReadReviews(r) ==
  LET f == frame(threads, r) IN
  /\ threads[r].pc = "called" /\ f.op = "num_user_review"
  /\ threads' = [threads EXCEPT ![r] =
                   [f EXCEPT !.pc = "read", !.recommendations_df = reviews]]
  /\ UNCHANGED <<users, games, reviews, call, ret, tallies, dataframe, applied, result>>

\* The rest of the function body, which works on the locals alone.
Compute(r) ==
  LET f == frame(threads, r) IN
  /\ threads[r].pc = "read"
  /\ threads' = [threads EXCEPT ![r] =
                   [f EXCEPT !.pc = "done",
                             !.ret = IF f.op = "money_spent"
                                     THEN money_spent(f.users_dataframe, f.games_dataframe,
                                                      f.user_id)
                                     ELSE num_user_review(f.recommendations_df, f.dates)]]
  /\ UNCHANGED <<users, games, reviews, call, ret, tallies, dataframe, applied, result>>

\* The route returns the response; the locals of the call are gone.
Reply(r) ==
  /\ threads[r].pc = "done"
  /\ threads' = [threads EXCEPT ![r] = IdleFrame]
  /\ UNCHANGED <<users, games, reviews, call, ret, tallies, dataframe, applied, result>>

NextConcurrent ==
  \E r \in Requests :
    \/ CallMoneySpent(r) \/ CallNumUserReview(r)
    \/ ReadUsers(r) \/ ReadGames(r) \/ ReadReviews(r)
    \/ Compute(r) \/ Reply(r)

SpecConcurrent == InitConcurrent /\ [][NextConcurrent]_vars

\* What the call of a frame returns when it runs alone over the dataset files.
AloneResult(f) ==
  IF f.op = "money_spent" THEN money_spent(users, games, f.user_id)
  ELSE num_user_review(reviews, f.dates)

ResultsAsAlone ==
  \A r \in Requests : threads[r].pc = "done" => threads[r].ret = AloneResult(threads[r])

\* A step changes the locals of one call at most, and no dataset file.
StepIsLocal ==
  /\ UNCHANGED <<users, games, reviews>>
  /\ \A r, q \in Requests :
       (threads'[r] # threads[r] /\ threads'[q] # threads[q]) => r = q

\* C11: concurrent requests are isolated: in every interleaving of calls of
\* money_spent and num_user_review over the same dataset files, each call returns
\* (or raises) what it does when run alone, and no step of a call changes the
\* dataset or the variables another call reads.
C11_ConcurrentRequestsIsolated == []ResultsAsAlone /\ [][StepIsLocal]_vars

C11_Witness ==
  /\ threads[1].pc = "done" /\ threads[1].op = "money_spent" /\ threads[1].user_id = "u1"
  /\ threads[2].pc = "done" /\ threads[2].op = "num_user_review"
  /\ threads[1].ret.st = "returned" /\ threads[1].ret.a > 0
  /\ threads[2].ret = Returned(1, 100 * 100)

(***************************************************************************)
(* The preparation functions (src/eda, src/data_preparation,               *)
(* src/data_transformation) are applied one at a time to a table or a      *)
(* value; result is what the call returned or the exception it raised.     *)
(***************************************************************************)
Gave(v) == [st |-> "returned", val |-> v]
Threw(e) == [st |-> e, val |-> NaN]

(***************************************************************************)
(* The literal decoder on one value.                                       *)
(***************************************************************************)
MaxElems == 3   \* longest list display given to the decoder

\* A text is the texts of its parts joined by ", ".
RECURSIVE JoinTexts(_)
JoinTexts(parts) ==
  IF parts = <<>> THEN <<>>
  ELSE IF Len(parts) = 1 THEN parts[1]
  ELSE parts[1] \o <<",", " ">> \o JoinTexts(Tail(parts))

DecodeAtoms == {PyInt(1), PyInt(2), PyInt(3), PyStr(<<"hello">>), PyBool(TRUE)}
ListTexts == {Repr(PyList(l)) : l \in SeqsUpTo(DecodeAtoms, MaxElems)}

\* Keys and values as written in a dict or set display, a list and a name included.
KeyTexts == {<<"1">>, <<"True">>, <<"[", "1", "]">>, <<"bad">>, <<"'", "hello", "'">>}
ValueTexts == {<<"2">>, <<"bad">>}
PairTexts == {k \o <<":", " ">> \o v : k \in KeyTexts, v \in ValueTexts}
DictTexts ==
  {<<"{">> \o JoinTexts(ps) \o <<"}">> : ps \in SeqsUpTo(PairTexts, MaxElems - 1)}
SetTexts ==
  {<<"{">> \o JoinTexts(es) \o <<"}">> :
     es \in SeqsUpTo(KeyTexts, MaxElems - 1) \ {<<>>}}
NestedTexts ==
  {<<"[">> \o d \o <<"]">> : d \in {<<"{", "[", "1", "]", ":", " ", "2", "}">>,
                                    <<"{", "'", "hello", "'", ":", " ", "2", "}">>}}
OtherTexts ==
  {<<>>, <<" ">>, <<"hello">>, <<"hello", " ", "hello">>, <<"[", "1">>, <<"1", " ", "2">>,
   <<"01">>, <<"1">>, <<"True">>, <<"None">>, <<" ", "[", "1", "]", " ">>,
   <<"1", ",", " ", "2">>, <<"[", "1", ",", "]">>, <<"{", "1", ":", "}">>,
   <<"'", "[", "1", "]", "'">>}
NotTexts ==
  {NaN, PyNone, PyInt(0), PyInt(7), PyFloat(12), PyBool(TRUE),
   PyList(<<PyInt(1), PyInt(2)>>), PyList(<<>>),
   PyDict(<<<<PyStr(<<"hello">>), PyInt(1)>>>>)}
DecodeInputs ==
  {PyStr(t) : t \in ListTexts \cup DictTexts \cup SetTexts \cup NestedTexts \cup OtherTexts}
    \cup NotTexts

InitDecode ==
  /\ dataframe \in DecodeInputs
  /\ applied = NotApplied /\ result = NoResult
  /\ users = <<>> /\ games = <<>> /\ reviews = <<>>
  /\ InitCalls /\ threads = NoThreads

\* safe_literal_eval(s) on the value at hand.
SafeLiteralEvalCall ==
  /\ applied = NotApplied
  /\ applied' = [fn |-> "safe_literal_eval"]
  /\ result' = LET v == safe_literal_eval(dataframe) IN
               IF v.k = "raised" THEN Threw(v.s[1]) ELSE Gave(v)
  /\ UNCHANGED <<dataframe, users, games, reviews, call, ret, tallies, threads>>

SpecDecode == InitDecode /\ [][SafeLiteralEvalCall]_vars

Decoding == applied.fn = "safe_literal_eval"

\* C12: safe_literal_eval never raises: for a str it returns the parsed literal or
\* the same str, for any other value the value itself; "[1, 2, 3]" gives the list
\* [1, 2, 3] and "hello" gives "hello".
C12_DecoderNeverRaises ==
  Decoding =>
    /\ result.st = "returned"
    /\ dataframe.k # "str" => result.val = dataframe
    /\ dataframe.k = "str" =>
         LET r == literal_eval(dataframe.s) IN
         result.val = (IF r.ok THEN r.val ELSE dataframe)
    /\ dataframe = PyStr(<<"[", "1", ",", " ", "2", ",", " ", "3", "]">>)
         => result.val = PyList(<<PyInt(1), PyInt(2), PyInt(3)>>)
    /\ dataframe = PyStr(<<"hello">>) => result.val = dataframe

\* What does hold: the only error that leaves the decoder on these inputs is the
\* TypeError of an unhashable key or element, and every other input gives the
\* literal or the input itself.
DecoderRaisesOnlyTypeError ==
  Decoding =>
    /\ result.st \in {"returned", "TypeError"}
    /\ result.st = "TypeError" =>
         (dataframe.k = "str" /\ literal_eval(dataframe.s).err = "TypeError")
    /\ (result.st = "returned" /\ dataframe.k # "str") => result.val = dataframe
    /\ dataframe = PyStr(<<"[", "1", ",", " ", "2", ",", " ", "3", "]">>)
         => result = Gave(PyList(<<PyInt(1), PyInt(2), PyInt(3)>>))
    /\ dataframe = PyStr(<<"hello">>) => result = Gave(dataframe)

(***************************************************************************)
(* The column normalizers (src/data_preparation/data_preparation_utils.py, *)
(* src/data_transformation/validation.py).  A DataFrame is its column      *)
(* labels in order and its rows in order; a row is its index label and one *)
(* cell per column.  A call gives [df, result]: the table the caller holds *)
(* after the call and what the call returned or raised.                    *)
(***************************************************************************)
Frame(columns, rows) == [columns |-> columns, rows |-> rows]
Row(label, cell) == [label |-> label, cell |-> cell]
Outcome(df, res) == [df |-> df, result |-> res]

ColumnSet(T) == {T.columns[i] : i \in 1 .. Len(T.columns)}
Indices(n) == [i \in 1 .. n |-> i]

\* pd.isnull / pd.isna of a scalar.
isnull(v) == v.k \in {"nan", "none"}

\* The value of every "column not found" message.
NotFound(column_name) == "Column '" \o column_name \o "' not found in the DataFrame"
ErrorValue(column_name) == Gave([error |-> NotFound(column_name)])

\* Two cells are the same value for duplicated(): nulls are one value.
CellEq(a, b) == (isnull(a) /\ isnull(b)) \/ (~isnull(a) /\ ~isnull(b) /\ KeyEq(a, b))

\* duplicated() hashes the cells of the column.
Unhashable(T, c) == \E i \in 1 .. Len(T.rows) : ~Hashable(T.rows[i].cell[c])

Occurrences(T, c, v) ==
  Cardinality({i \in 1 .. Len(T.rows) : CellEq(T.rows[i].cell[c], v)})

\* sort_values(by='Occurrences', ascending=False); equal counts stay in the order
\* value_counts gave them.
RECURSIVE sort_values(_)
InsertByOccurrences(e, sorted) ==
  LET before == SelectSeq(sorted, LAMBDA x : x.Occurrences >= e.Occurrences)
      after == SelectSeq(sorted, LAMBDA x : x.Occurrences < e.Occurrences)
  IN  before \o <<e>> \o after
sort_values(summary) ==
  IF summary = <<>> THEN <<>>
  ELSE InsertByOccurrences(summary[Len(summary)],
                           sort_values(SubSeq(summary, 1, Len(summary) - 1)))

check_duplicates_summary(T, column_name) ==
  IF column_name \notin ColumnSet(T) THEN Outcome(T, ErrorValue(column_name))
  ELSE IF Unhashable(T, column_name) THEN Outcome(T, Threw("TypeError"))
  ELSE
    LET n == Len(T.rows)
        v(i) == T.rows[i].cell[column_name]
        \* the first row of each value that is not null and occurs again
        firsts == SelectSeq(Indices(n), LAMBDA i :
                    /\ ~isnull(v(i))
                    /\ Occurrences(T, column_name, v(i)) > 1
                    /\ \A j \in 1 .. i - 1 : ~CellEq(v(j), v(i)))
        duplicated_counts ==
          [k \in 1 .. Len(firsts) |->
             [Value |-> v(firsts[k]),
              Occurrences |-> Occurrences(T, column_name, v(firsts[k]))]]
    IN  Outcome(T, Gave(sort_values(duplicated_counts)))

NullCount(row, columns) == Cardinality({c \in columns : isnull(row.cell[c])})

check_none_values(T, column_name, check_other_columns, min_none_null_values) ==
  IF column_name \notin ColumnSet(T) THEN Outcome(T, ErrorValue(column_name))
  ELSE
    LET n == Len(T.rows)
        num_columns == Len(T.columns)
        min_non_null_required == num_columns - min_none_null_values
        rows_below_threshold ==
          Cardinality({i \in 1 .. n :
            num_columns - NullCount(T.rows[i], ColumnSet(T)) < min_non_null_required})
    IN  Outcome(T, Gave(
          [column_name |-> column_name,
           total_rows |-> n,
           num_none_values |->
             Cardinality({i \in 1 .. n : isnull(T.rows[i].cell[column_name])}),
           rows_below_threshold |->
             IF check_other_columns THEN PyInt(rows_below_threshold) ELSE PyNone]))

\* Mutant of remove_duplicates: the last row of each value is kept (keep='last').
remove_duplicates_keep_last(T, column_name) ==
  IF column_name \notin ColumnSet(T)
  THEN Outcome(T, Threw("ValueError: " \o NotFound(column_name) \o "."))
  ELSE IF Unhashable(T, column_name) THEN Outcome(T, Threw("TypeError"))
  ELSE
    LET n == Len(T.rows)
        kept == SelectSeq(Indices(n), LAMBDA i :
                  \A j \in i + 1 .. n :
                    ~CellEq(T.rows[j].cell[column_name], T.rows[i].cell[column_name]))
        df_cleaned == Frame(T.columns, [k \in 1 .. Len(kept) |-> T.rows[kept[k]]])
    IN  Outcome(T, Gave([df |-> df_cleaned, printed |-> n - Len(kept)]))

\* remove_duplicates (the same body in both files): the table without the rows
\* drop_duplicates(subset=column_name, keep='first') drops, and the count printed.
remove_duplicates(T, column_name) ==
  IF column_name \notin ColumnSet(T)
  THEN Outcome(T, Threw("ValueError: " \o NotFound(column_name) \o "."))
  ELSE IF Unhashable(T, column_name) THEN Outcome(T, Threw("TypeError"))
  ELSE
    LET initial_rows == Len(T.rows)
        kept == SelectSeq(Indices(initial_rows), LAMBDA i :
                  \A j \in 1 .. i - 1 :
                    ~CellEq(T.rows[j].cell[column_name], T.rows[i].cell[column_name]))
        df_cleaned == Frame(T.columns, [k \in 1 .. Len(kept) |-> T.rows[kept[k]]])
        cleaned_rows == Len(df_cleaned.rows)
    IN  Outcome(T, Gave([df |-> df_cleaned, printed |-> initial_rows - cleaned_rows]))

\* data_preparation_utils.remove_none_values: dataframe[dataframe[c].notnull()]
remove_none_values(T, column_name) ==
  IF column_name \notin ColumnSet(T)
  THEN Outcome(T, Threw("ValueError: " \o NotFound(column_name)))
  ELSE Outcome(T, Gave(Frame(T.columns,
                             SelectSeq(T.rows, LAMBDA r : ~isnull(r.cell[column_name])))))

\* dataframe[column_name] = dataframe[column_name].dropna(): the column is assigned
\* a Series without the null rows, which is aligned on the index of the table, so
\* the rows the Series lacks get a null.
assign_dropna(T, column_name) ==
  LET kept == {T.rows[i].label : i \in {j \in 1 .. Len(T.rows) :
                                          ~isnull(T.rows[j].cell[column_name])}}
  IN  Frame(T.columns,
            [i \in 1 .. Len(T.rows) |->
               IF T.rows[i].label \in kept THEN T.rows[i]
               ELSE Row(T.rows[i].label, [T.rows[i].cell EXCEPT ![column_name] = NaN])])

\* validation.remove_none_values
validation_remove_none_values(T, column_name, remove_none_rows, min_none_values) ==
  IF column_name \notin ColumnSet(T)
  THEN Outcome(T, Threw("ValueError: " \o NotFound(column_name)))
  ELSE
    LET copy == assign_dropna(T, column_name)
    IN  Outcome(T, Gave(
          IF remove_none_rows
          THEN Frame(copy.columns,
                     SelectSeq(copy.rows,
                               LAMBDA r : NullCount(r, ColumnSet(T)) <= min_none_values))
          ELSE copy))

(***************************************************************************)
(* Numeric coercion.  pd.to_numeric of a scalar: a number is returned as   *)
(* it is, None and the empty str become NaN, a str is parsed, anything     *)
(* else is a ValueError or TypeError; of a list, the array of its parsed   *)
(* entries.                                                                *)
(***************************************************************************)
\* The texts of one token that are numbers, with the number they denote.
FloatOf == [t \in {"0.5", "1.5"} |-> IF t = "0.5" THEN 4 ELSE 12]
IsNumberText(t) == Len(t) = 1 /\ t[1] \in DOMAIN FieldOf \cup DOMAIN FloatOf
NumberOf(t) ==
  IF t[1] \in DOMAIN FieldOf THEN PyInt(FieldOf[t[1]]) ELSE PyFloat(FloatOf[t[1]])

ToNumericFail == [fail |-> TRUE, val |-> NaN]
RECURSIVE to_numeric(_)
to_numeric(value) ==
  CASE value.k \in {"int", "float", "bool", "nan"} -> [fail |-> FALSE, val |-> value]
    [] value.k = "none" -> [fail |-> FALSE, val |-> NaN]
    [] value.k = "str" ->
         IF value.s = <<>> THEN [fail |-> FALSE, val |-> NaN]
         ELSE IF IsNumberText(value.s) THEN [fail |-> FALSE, val |-> NumberOf(value.s)]
         ELSE ToNumericFail
    [] value.k \in {"list", "tuple"} ->
         LET parts == [i \in 1 .. Len(value.l) |-> to_numeric(value.l[i])] IN
         IF \E i \in 1 .. Len(parts) : parts[i].fail \/ value.l[i].k \in {"list", "tuple"}
         THEN ToNumericFail
         ELSE [fail |-> FALSE, val |-> PyList([i \in 1 .. Len(parts) |-> parts[i].val])]
    [] OTHER -> ToNumericFail

\* Mutant of convert_to_numeric: a str that does not parse becomes NaN
\* (errors="coerce") and is not reported.
convert_to_numeric_coerce(value) ==
  IF value.k \notin {"int", "float", "nan"} THEN
    LET r == to_numeric(value) IN
    [msj_fail |-> FALSE, val |-> r.val]
  ELSE [msj_fail |-> FALSE, val |-> value]

\* [msj_fail, val]: type(value) is int or float for an int, a float and NaN.
convert_to_numeric(value) ==
  IF value.k \notin {"int", "float", "nan"} THEN
    LET r == to_numeric(value) IN
    IF r.fail THEN [msj_fail |-> TRUE, val |-> value]
    ELSE [msj_fail |-> FALSE, val |-> r.val]
  ELSE [msj_fail |-> FALSE, val |-> value]

\* Mutant of convert_list_to_numeric: the report is keyed from 1, not from 0.
RECURSIVE convert_list_to_numeric_from_one(_, _, _)
convert_list_to_numeric_from_one(lst, idx_list, acc) ==
  IF idx_list >= Len(lst) THEN acc
  ELSE
    LET r == convert_to_numeric(lst[idx_list + 1]) IN
    convert_list_to_numeric_from_one(lst, idx_list + 1,
      [msj_fail |-> acc.msj_fail \/ r.msj_fail,
       report_dic |-> IF r.msj_fail
                      THEN DictPut(acc.report_dic, PyInt(idx_list + 1), r.val)
                      ELSE acc.report_dic,
       converted_list |-> Append(acc.converted_list, r.val)])

\* for idx_list, value in enumerate(lst): ... ; acc is [msj_fail, report_dic,
\* converted_list].
RECURSIVE convert_list_to_numeric(_, _, _)
convert_list_to_numeric(lst, idx_list, acc) ==
  IF idx_list >= Len(lst) THEN acc
  ELSE
    LET r == convert_to_numeric(lst[idx_list + 1]) IN
    convert_list_to_numeric(lst, idx_list + 1,
      [msj_fail |-> acc.msj_fail \/ r.msj_fail,
       report_dic |-> IF r.msj_fail
                      THEN DictPut(acc.report_dic, PyInt(idx_list), r.val)
                      ELSE acc.report_dic,
       converted_list |-> Append(acc.converted_list, r.val)])

NoConversions == [msj_fail |-> FALSE, report_dic |-> <<>>, converted_list |-> <<>>]

\* One row of a column conversion: [failed, entry, val], entry being what the
\* report gets under the row's label.
numeric_row(value) ==
  IF value.k = "list" THEN
    LET r == convert_list_to_numeric(value.l, 0, NoConversions) IN
    [failed |-> r.msj_fail, entry |-> PyDict(r.report_dic), val |-> PyList(r.converted_list)]
  ELSE
    LET r == convert_to_numeric(value) IN
    [failed |-> r.msj_fail, entry |-> value, val |-> r.val]

\* The loop over dataframe.iterrows() of a column conversion whose rows convert by
\* conv: the report (the pairs of a dict keyed by index label) and the new cells.
RECURSIVE column_loop(_, _, _, _, _)
column_loop(T, column_name, conv, i, acc) ==
  IF i > Len(T.rows) THEN acc
  ELSE
    LET r == conv[i] IN
    column_loop(T, column_name, conv, i + 1,
      [report |-> IF r.failed
                  THEN DictPut(acc.report, PyInt(T.rows[i].label), r.entry)
                  ELSE acc.report,
       converted_values |-> Append(acc.converted_values, r.val)])

\* dataframe[column_name] = converted_values, and the summary.
column_summary(T, column_name, done) ==
  Outcome(
    Frame(T.columns,
          [i \in 1 .. Len(T.rows) |->
             Row(T.rows[i].label,
                 [T.rows[i].cell EXCEPT ![column_name] = done.converted_values[i]])]),
    Gave([total_rows |-> Len(T.rows),
          column_name |-> column_name,
          num_failed_conversions |-> Len(done.report),
          report |-> PyDict(done.report)]))

convert_column_to_numeric(T, column_name) ==
  IF column_name \notin ColumnSet(T) THEN Outcome(T, ErrorValue(column_name))
  ELSE
    LET conv == [i \in 1 .. Len(T.rows) |-> numeric_row(T.rows[i].cell[column_name])]
    IN  column_summary(T, column_name,
          column_loop(T, column_name, conv, 1, [report |-> <<>>, converted_values |-> <<>>]))

(***************************************************************************)
(* Date coercion.                                                          *)
(***************************************************************************)
\* strptime of a text of three numeric fields joined by sep, the year, month and
\* day at the token positions y, m and d.
StrpFields(t, sep, y, m, d) ==
  IF /\ Len(t) = 5
     /\ t[2] = sep /\ t[4] = sep
     /\ t[y] \in DOMAIN FieldOf /\ Len(t[y]) = 4 /\ FieldOf[t[y]] >= 1
     /\ t[m] \in DOMAIN FieldOf /\ Len(t[m]) <= 2 /\ FieldOf[t[m]] \in 1 .. 12
     /\ t[d] \in DOMAIN FieldOf /\ Len(t[d]) <= 2
     /\ FieldOf[t[d]] \in 1 .. DaysInMonth(FieldOf[t[y]], FieldOf[t[m]])
  THEN [ok |-> TRUE, d |-> <<FieldOf[t[y]], FieldOf[t[m]], FieldOf[t[d]]>>]
  ELSE StrpFail

\* datetime.strptime(value, pattern)
strptime_pattern(t, pattern) ==
  CASE pattern = "%Y-%m-%d" -> strptime(t)
    [] pattern = "%d/%m/%Y" -> StrpFields(t, "/", 5, 3, 1)
    [] pattern = "%m/%d/%Y" -> StrpFields(t, "/", 5, 1, 3)
    [] pattern = "%Y-%d-%m" -> StrpFields(t, "-", 1, 5, 3)
    [] OTHER -> StrpFail

\* original_date.strftime("%Y-%m-%d").  %Y is given to the C library, and the
\* libraries differ on a year below 1000: some write four digits, glibc writes the
\* number as it is ('999'); zero_padded says which the build has.
strftime(d, zero_padded) ==
  <<IF zero_padded THEN Pad4(d[1]) ELSE ToString(d[1]), "-", Pad2(d[2]), "-", Pad2(d[3])>>

DefaultPatterns == <<"%Y-%m-%d">>

\* for pattern in original_patterns: try ... return converted_value, True
RECURSIVE pattern_loop(_, _, _)
pattern_loop(value, patterns, zero_padded) ==
  IF patterns = <<>> THEN [val |-> value, success |-> FALSE]
  ELSE
    LET p == strptime_pattern(value.s, Head(patterns)) IN
    IF p.ok THEN [val |-> PyStr(strftime(p.d, zero_padded)), success |-> TRUE]
    ELSE pattern_loop(value, Tail(patterns), zero_padded)

\* original_patterns is a list of patterns, or None for the default list.
convert_to_date(value, original_patterns, zero_padded) ==
  IF value.k = "str"
  THEN pattern_loop(value,
                    IF original_patterns = PyNone THEN DefaultPatterns
                    ELSE original_patterns,
                    zero_padded)
  ELSE [val |-> value, success |-> FALSE]

RECURSIVE convert_list_to_dates(_, _, _, _, _)
convert_list_to_dates(lst, original_patterns, zero_padded, idx, acc) ==
  IF idx >= Len(lst) THEN acc
  ELSE
    LET r == convert_to_date(lst[idx + 1], original_patterns, zero_padded) IN
    convert_list_to_dates(lst, original_patterns, zero_padded, idx + 1,
      [success |-> acc.success /\ r.success,
       report |-> IF ~r.success THEN DictPut(acc.report, PyInt(idx), lst[idx + 1])
                  ELSE acc.report,
       converted_list |-> Append(acc.converted_list, r.val)])

date_row(value, original_patterns, zero_padded) ==
  IF value.k = "list" THEN
    LET r == convert_list_to_dates(value.l, original_patterns, zero_padded, 0,
               [success |-> TRUE, report |-> <<>>, converted_list |-> <<>>]) IN
    [failed |-> ~r.success, entry |-> PyDict(r.report), val |-> PyList(r.converted_list)]
  ELSE
    LET r == convert_to_date(value, original_patterns, zero_padded) IN
    [failed |-> ~r.success, entry |-> value, val |-> r.val]

\* convert_column_to_dates (the same body in data_analysis_utils)
convert_column_to_dates(T, column_name, original_patterns, zero_padded) ==
  IF column_name \notin ColumnSet(T) THEN Outcome(T, ErrorValue(column_name))
  ELSE
    LET conv == [i \in 1 .. Len(T.rows) |->
                   date_row(T.rows[i].cell[column_name], original_patterns, zero_padded)]
    IN  column_summary(T, column_name,
          column_loop(T, column_name, conv, 1, [report |-> <<>>, converted_values |-> <<>>]))

(***************************************************************************)
(* Special strings.                                                        *)
(***************************************************************************)
\* str.lower(), token by token.
LowerToken ==
  [t \in {"Free", "FREE", "To", "Play", "X", "Demo", "Use", "Mod", "Install", "Theme",
          "Now", "WARMACHINE:", "Tactics", "Third-party", "HITMAN", "Holiday", "Pack"} |->
     CASE t \in {"Free", "FREE"} -> "free"
       [] t = "To" -> "to"
       [] t = "Play" -> "play"
       [] t = "X" -> "x"
       [] t = "Demo" -> "demo"
       [] t = "Use" -> "use"
       [] t = "Mod" -> "mod"
       [] t = "Install" -> "install"
       [] t = "Theme" -> "theme"
       [] t = "Now" -> "now"
       [] t = "WARMACHINE:" -> "warmachine:"
       [] t = "Tactics" -> "tactics"
       [] t = "Third-party" -> "third-party"
       [] t = "HITMAN" -> "hitman"
       [] t = "Holiday" -> "holiday"
       [] t = "Pack" -> "pack"]
lower(t) ==
  [i \in 1 .. Len(t) |-> IF t[i] \in DOMAIN LowerToken THEN LowerToken[t[i]] ELSE t[i]]

\* convert_value(row): [raised, failed, val].  pd.isna of a list is an array, and
\* the truth value of an array of two or more entries is a ValueError.
convert_value(value, special_strings_lower, converted_value) ==
  IF value.k \in {"list", "tuple"} /\ Len(value.l) >= 2
  THEN [raised |-> TRUE, failed |-> FALSE, val |-> value]
  ELSE IF isnull(value) THEN [raised |-> FALSE, failed |-> FALSE, val |-> value]
  ELSE IF value.k = "str" THEN
    IF lower(value.s) \in special_strings_lower
    THEN [raised |-> FALSE, failed |-> FALSE, val |-> converted_value]
    ELSE
      LET r == to_numeric(value) IN
      IF r.fail THEN [raised |-> FALSE, failed |-> TRUE, val |-> value]
      ELSE [raised |-> FALSE, failed |-> FALSE, val |-> r.val]
  ELSE [raised |-> FALSE, failed |-> FALSE, val |-> value]

\* dataframe.apply(convert_value, axis=1): the failures counted and the report.
RECURSIVE apply_convert_value(_, _, _, _)
apply_convert_value(T, column_name, conv, i) ==
  IF i = 0 THEN [num_failed_conversions |-> 0, report |-> <<>>]
  ELSE
    LET acc == apply_convert_value(T, column_name, conv, i - 1) IN
    IF conv[i].failed
    THEN [num_failed_conversions |-> acc.num_failed_conversions + 1,
          report |-> DictPut(acc.report, PyInt(T.rows[i].label),
                             T.rows[i].cell[column_name])]
    ELSE acc

convert_special_strings(T, column_name, special_strings, converted_value) ==
  IF column_name \notin ColumnSet(T) THEN Outcome(T, ErrorValue(column_name))
  ELSE
    LET special_strings_lower == {lower(x) : x \in special_strings}
        conv == [i \in 1 .. Len(T.rows) |->
                   convert_value(T.rows[i].cell[column_name], special_strings_lower,
                                 converted_value)]
        done == apply_convert_value(T, column_name, conv, Len(T.rows))
    IN
    IF \E i \in 1 .. Len(T.rows) : conv[i].raised THEN Outcome(T, Threw("ValueError"))
    ELSE Outcome(
           Frame(T.columns,
                 [i \in 1 .. Len(T.rows) |->
                    Row(T.rows[i].label,
                        [T.rows[i].cell EXCEPT ![column_name] = conv[i].val])]),
           Gave([total_rows |-> Len(T.rows),
                 column_name |-> column_name,
                 num_failed_conversions |-> done.num_failed_conversions,
                 report |-> PyDict(done.report)]))

(***************************************************************************)
(* Nested-field extraction.                                                *)
(***************************************************************************)
\* dataframe[column] = pd.Series([], dtype='object'): the column is added, or
\* written over, with a null in every row.
RECURSIVE create_columns(_, _)
create_columns(T, new_columns) ==
  IF new_columns = <<>> THEN T
  ELSE
    LET column == Head(new_columns)
        columns == IF column \in ColumnSet(T) THEN T.columns ELSE Append(T.columns, column)
        cols == ColumnSet(T) \cup {column}
    IN  create_columns(
          Frame(columns,
                [i \in 1 .. Len(T.rows) |->
                   Row(T.rows[i].label,
                       [c \in cols |-> IF c = column THEN NaN ELSE T.rows[i].cell[c]])]),
          Tail(new_columns))

\* item.get(key): the value at the key, None when the dict lacks it.
dict_get(item, key) ==
  IF \E p \in 1 .. Len(item.l) : KeyEq(item.l[p][1], key)
  THEN item.l[CHOOSE p \in 1 .. Len(item.l) : KeyEq(item.l[p][1], key)][2]
  ELSE PyNone

\* for item in value: for key in keys: extracted_values[key].append(...); the
\* dict has one list per distinct key.
RECURSIVE extract_items(_, _, _, _)
extract_items(items, keys, k, extracted_values) ==
  IF items = <<>> THEN extracted_values
  ELSE IF k > Len(keys) THEN extract_items(Tail(items), keys, 1, extracted_values)
  ELSE extract_items(items, keys, k + 1,
         [extracted_values EXCEPT ![keys[k]] = Append(@, dict_get(Head(items), keys[k]))])

\* What iterating the cell and calling item.get raises, "" when nothing.
extract_error(value) ==
  IF value.k \in {"list", "tuple", "set"} THEN
    (IF \E i \in 1 .. Len(value.l) : value.l[i].k # "dict" THEN "AttributeError" ELSE "")
  ELSE IF value.k = "str" THEN (IF value.s = <<>> THEN "" ELSE "AttributeError")
  ELSE IF value.k = "dict" THEN (IF value.l = <<>> THEN "" ELSE "AttributeError")
  ELSE "TypeError"

\* dataframe.at[indx_column_name, column] = key_value, for every new column.
RECURSIVE store_extracted(_, _, _, _, _)
store_extracted(cell, keys, new_columns, k, extracted_values) ==
  IF k > Len(new_columns) THEN cell
  ELSE store_extracted([cell EXCEPT ![new_columns[k]] = PyList(extracted_values[keys[k]])],
                       keys, new_columns, k + 1, extracted_values)

\* for indx_column_name, value in dataframe[column_name].items(): the column was
\* read before the loop, the rows are written one by one.
RECURSIVE extract_rows(_, _, _, _, _, _)
extract_rows(T, values, keys, new_columns, i, done) ==
  IF i > Len(T.rows) THEN Outcome(Frame(T.columns, done), Gave("dataframe"))
  ELSE
    LET value == values[i]
        e == extract_error(value)
    IN
    IF e # ""
    THEN Outcome(Frame(T.columns, done \o SubSeq(T.rows, i, Len(T.rows))), Threw(e))
    ELSE
      LET items == IF value.k \in {"list", "tuple", "set"} THEN value.l ELSE <<>>
          extracted_values ==
            extract_items(items, keys, 1,
                          [key \in {keys[k] : k \in 1 .. Len(keys)} |-> <<>>])
      IN  extract_rows(T, values, keys, new_columns, i + 1,
            Append(done, Row(T.rows[i].label,
                             store_extracted(T.rows[i].cell, keys, new_columns, 1,
                                             extracted_values))))

\* extract_values returns the table it was given, changed in place.
extract_values(T, column_name, keys, new_columns) ==
  IF Len(keys) # Len(new_columns)
  THEN Outcome(T, Threw("ValueError: keys and new_columns length must be the same"))
  ELSE
    LET created == create_columns(T, new_columns) IN
    IF column_name \notin ColumnSet(created) THEN Outcome(created, Threw("KeyError"))
    ELSE extract_rows(created,
                      [i \in 1 .. Len(created.rows) |-> created.rows[i].cell[column_name]],
                      keys, new_columns, 1, <<>>)

(***************************************************************************)
(* One normalizer applied to one table.  The tables have the columns a and *)
(* b; zz names no column.  dataframe is the table the caller holds, applied *)
(* the call made, with the table as it was.                                *)
(***************************************************************************)
MaxTableRows == 3   \* most rows of a table given to a normalizer

Cell(a, b) == [c \in {"a", "b"} |-> IF c = "a" THEN a ELSE b]

\* The rows by their cells: texts that are and are not numbers, a number, nulls,
\* a list of texts and a list of dicts.
RowCells ==
  {Cell(PyStr(<<"3">>), PyInt(1)),
   Cell(PyStr(<<"x">>), PyInt(1)),
   Cell(PyInt(5), PyInt(1)),
   Cell(NaN, PyInt(1)),
   Cell(PyNone, NaN),
   Cell(PyStr(<<"3">>), NaN),
   Cell(PyList(<<PyStr(<<"3">>), PyStr(<<"x">>)>>), PyInt(1)),
   Cell(PyList(<<PyDict(<<<<PyStr(<<"c">>), PyInt(1)>>>>), PyDict(<<>>)>>), PyInt(1))}

\* The index labels are consecutive, from 0 (the default index) or from 5.
FirstLabels == {0, 5}
Tables ==
  {Frame(<<"a", "b">>, [i \in 1 .. Len(cells) |-> Row(first + i - 1, cells[i])]) :
     cells \in SeqsUpTo(RowCells, MaxTableRows), first \in FirstLabels}

ColumnNames == {"a", "zz"}

InitNormalize ==
  /\ dataframe \in Tables
  /\ applied = NotApplied /\ result = NoResult
  /\ users = <<>> /\ games = <<>> /\ reviews = <<>>
  /\ InitCalls /\ threads = NoThreads

\* The call `made` on the table at hand gave `out`.
Applied(made, out) ==
  /\ applied' = made
  /\ dataframe' = out.df
  /\ result' = out.result
  /\ UNCHANGED <<users, games, reviews, call, ret, tallies, threads>>

CheckDuplicatesSummaryCall ==
  \E column_name \in ColumnNames :
    /\ applied = NotApplied
    /\ Applied([fn |-> "check_duplicates_summary", column_name |-> column_name,
                dataframe |-> dataframe],
               check_duplicates_summary(dataframe, column_name))

CheckNoneValuesCall ==
  \E column_name \in ColumnNames, check_other_columns \in BOOLEAN,
     min_none_null_values \in {0, 1} :
    /\ applied = NotApplied
    /\ Applied([fn |-> "check_none_values", column_name |-> column_name,
                dataframe |-> dataframe, check_other_columns |-> check_other_columns,
                min_none_null_values |-> min_none_null_values],
               check_none_values(dataframe, column_name, check_other_columns,
                                 min_none_null_values))

ConvertColumnToNumericCall ==
  \E column_name \in ColumnNames :
    /\ applied = NotApplied
    /\ Applied([fn |-> "convert_column_to_numeric", column_name |-> column_name,
                dataframe |-> dataframe],
               convert_column_to_numeric(dataframe, column_name))

ConvertColumnToDatesCall ==
  \E column_name \in ColumnNames, original_patterns \in {PyNone, <<"%d/%m/%Y">>},
     zero_padded \in BOOLEAN :
    /\ applied = NotApplied
    /\ Applied([fn |-> "convert_column_to_dates", column_name |-> column_name,
                dataframe |-> dataframe, original_patterns |-> original_patterns],
               convert_column_to_dates(dataframe, column_name, original_patterns,
                                       zero_padded))

\* The special strings of a call: one that a cell matches but for its case, and
\* one that no cell matches.
SpecialStrings == {{<<"X">>}, {<<"Free">>}}

ConvertSpecialStringsCall ==
  \E column_name \in ColumnNames, special_strings \in SpecialStrings :
    /\ applied = NotApplied
    /\ Applied([fn |-> "convert_special_strings", column_name |-> column_name,
                dataframe |-> dataframe, special_strings |-> special_strings,
                converted_value |-> PyInt(0)],
               convert_special_strings(dataframe, column_name, special_strings, PyInt(0)))

\* keys and new_columns of a call: one key, one key and no column (the lengths
\* differ), two keys, and the same key twice.
ExtractArgs ==
  {[keys |-> <<PyStr(<<"c">>)>>, new_columns |-> <<"d">>],
   [keys |-> <<PyStr(<<"c">>)>>, new_columns |-> <<>>],
   [keys |-> <<PyStr(<<"c">>), PyStr(<<"x">>)>>, new_columns |-> <<"d", "e">>],
   [keys |-> <<PyStr(<<"c">>), PyStr(<<"c">>)>>, new_columns |-> <<"d", "e">>]}

ExtractValuesCall ==
  \E column_name \in ColumnNames, args \in ExtractArgs :
    /\ applied = NotApplied
    /\ Applied([fn |-> "extract_values", column_name |-> column_name,
                dataframe |-> dataframe, keys |-> args.keys,
                new_columns |-> args.new_columns],
               extract_values(dataframe, column_name, args.keys, args.new_columns))

RemoveDuplicatesCall ==
  \E column_name \in ColumnNames :
    /\ applied = NotApplied
    /\ Applied([fn |-> "remove_duplicates", column_name |-> column_name,
                dataframe |-> dataframe],
               remove_duplicates(dataframe, column_name))

RemoveNoneValuesCall ==
  \E column_name \in ColumnNames :
    /\ applied = NotApplied
    /\ Applied([fn |-> "remove_none_values", column_name |-> column_name,
                dataframe |-> dataframe],
               remove_none_values(dataframe, column_name))

ValidationRemoveNoneValuesCall ==
  \E column_name \in ColumnNames, remove_none_rows \in BOOLEAN, min_none_values \in {0, 1} :
    /\ applied = NotApplied
    /\ Applied([fn |-> "validation.remove_none_values", column_name |-> column_name,
                dataframe |-> dataframe, remove_none_rows |-> remove_none_rows,
                min_none_values |-> min_none_values],
               validation_remove_none_values(dataframe, column_name, remove_none_rows,
                                             min_none_values))

NextNormalize ==
  \/ CheckDuplicatesSummaryCall
  \/ CheckNoneValuesCall
  \/ ConvertColumnToNumericCall
  \/ ConvertColumnToDatesCall
  \/ ConvertSpecialStringsCall
  \/ ExtractValuesCall
  \/ RemoveDuplicatesCall
  \/ RemoveNoneValuesCall
  \/ ValidationRemoveNoneValuesCall

SpecNormalize == InitNormalize /\ [][NextNormalize]_vars

Called == applied.fn # "none"
AbsentColumn == Called /\ applied.column_name \notin ColumnSet(applied.dataframe)

\* C13: every normalizer called with a column name that is not in the table
\* returns the error value {"error": "Column '<name>' not found in the DataFrame"}
\* and does not raise.
C13_AbsentColumnGivesErrorValue ==
  AbsentColumn => result = ErrorValue(applied.column_name)

\* What does hold: the five functions that return a summary give the error value
\* and leave the table as it was; remove_duplicates and both remove_none_values
\* raise ValueError, and extract_values raises (KeyError once its columns are
\* added, ValueError before that when keys and new_columns differ in length).
SummariesGiveErrorValue ==
  AbsentColumn =>
    IF applied.fn \in {"check_duplicates_summary", "check_none_values",
                       "convert_column_to_numeric", "convert_column_to_dates",
                       "convert_special_strings"}
    THEN result = ErrorValue(applied.column_name) /\ dataframe = applied.dataframe
    ELSE result.st # "returned"

RemovingNone ==
  applied.fn \in {"remove_none_values", "validation.remove_none_values"}
    /\ result.st = "returned"

\* The whole-row check of the call made is on.
WholeRowCheck == applied.fn = "validation.remove_none_values" /\ applied.remove_none_rows

\* C14: remove_none_values (both definitions) returns the input rows whose target
\* cell is not null, in the original order, and with the whole-row check on it
\* also drops the rows that have more than min_none_values null cells.
C14_RemoveNoneValuesDropsNullRows ==
  RemovingNone =>
    result.val.rows =
      SelectSeq(applied.dataframe.rows, LAMBDA r :
        /\ ~isnull(r.cell[applied.column_name])
        /\ WholeRowCheck =>
             NullCount(r, ColumnSet(applied.dataframe)) <= applied.min_none_values)

\* What does hold: the definition of data_preparation_utils returns the rows
\* whose target cell is not null; the one of validation keeps every row when the
\* whole-row check is off, and with it on drops by the count of nulls alone.
RemoveNoneValuesAsCoded ==
  RemovingNone =>
    LET T == applied.dataframe
        c == applied.column_name
    IN  IF applied.fn = "remove_none_values"
        THEN result.val.rows = SelectSeq(T.rows, LAMBDA r : ~isnull(r.cell[c]))
        ELSE /\ ~WholeRowCheck => Len(result.val.rows) = Len(T.rows)
             /\ WholeRowCheck =>
                  [i \in 1 .. Len(result.val.rows) |-> result.val.rows[i].label] =
                  [i \in 1 .. Len(SelectSeq(T.rows, LAMBDA r :
                        NullCount(r, ColumnSet(T)) <= applied.min_none_values)) |->
                     SelectSeq(T.rows, LAMBDA r :
                        NullCount(r, ColumnSet(T)) <= applied.min_none_values)[i].label]

RemovedDuplicates == applied.fn = "remove_duplicates" /\ result.st = "returned"

\* The position in the table of the row with the given index label.
PositionOf(T, label) == CHOOSE i \in 1 .. Len(T.rows) : T.rows[i].label = label

\* C15: remove_duplicates returns the rows that are the first occurrence of their
\* value in the target column (nulls being one value), in the original order: the
\* rows returned are rows of the input in increasing position, no two of them
\* have the same target value, none has an earlier row of the input with its
\* value, every target value of the input is among them, and the count reported
\* is the number of input rows minus the number of rows returned.
C15_RemoveDuplicatesKeepsFirst ==
  RemovedDuplicates =>
    LET T == applied.dataframe
        c == applied.column_name
        out == result.val.df.rows
        pos == [k \in 1 .. Len(out) |-> PositionOf(T, out[k].label)]
    IN  /\ \A k \in 1 .. Len(out) : \E i \in 1 .. Len(T.rows) : T.rows[i] = out[k]
        /\ \A k \in 1 .. Len(out) : \A m \in 1 .. Len(out) : k < m => pos[k] < pos[m]
        /\ \A k \in 1 .. Len(out) : \A m \in 1 .. Len(out) :
             k # m => ~CellEq(out[k].cell[c], out[m].cell[c])
        /\ \A k \in 1 .. Len(out) : \A i \in 1 .. pos[k] - 1 :
             ~CellEq(T.rows[i].cell[c], out[k].cell[c])
        /\ \A i \in 1 .. Len(T.rows) : \E k \in 1 .. Len(out) :
             CellEq(T.rows[i].cell[c], out[k].cell[c])
        /\ result.val.printed = Len(T.rows) - Len(out)
        /\ dataframe = T

\* A table of three rows whose first and last have the same target value was
\* reduced to two rows.
C15_Witness ==
  /\ RemovedDuplicates
  /\ Len(applied.dataframe.rows) = 3
  /\ CellEq(applied.dataframe.rows[1].cell[applied.column_name],
            applied.dataframe.rows[3].cell[applied.column_name])
  /\ Len(result.val.df.rows) = 2
  /\ result.val.printed = 1

ConvertedToNumeric ==
  /\ applied.fn = "convert_column_to_numeric"
  /\ applied.column_name \in ColumnSet(applied.dataframe)

\* A value parses as a number: it is a number (NaN and a bool included), the text
\* of one, or a missing value (None, the empty text), whose number is NaN.
ParsesAsNumber(v) ==
  \/ v.k \in {"int", "float", "bool", "nan", "none"}
  \/ v.k = "str" /\ (v.s = <<>> \/ IsNumberText(v.s))

\* The value a cell or an element holds after the conversion.
AfterConversion(v) ==
  IF ~ParsesAsNumber(v) THEN v
  ELSE IF v.k = "none" THEN NaN
  ELSE IF v.k = "str" THEN (IF v.s = <<>> THEN NaN ELSE NumberOf(v.s))
  ELSE v

\* The positions of the sequence whose value does not parse.
FailedAt(l) == SelectSeq(Indices(Len(l)), LAMBDA j : ~ParsesAsNumber(l[j]))

\* The nested report of a list cell: element index (from 0) to the element.
NestedReport(l) ==
  PyDict([k \in 1 .. Len(FailedAt(l)) |-> <<PyInt(FailedAt(l)[k] - 1), l[FailedAt(l)[k]]>>])

RowFails(v) == IF v.k = "list" THEN FailedAt(v.l) # <<>> ELSE ~ParsesAsNumber(v)

C20_ListCellWitness ==
  /\ ConvertedToNumeric
  /\ Len(applied.dataframe.rows) = 1
  /\ applied.dataframe.rows[1].cell["a"] = PyList(<<PyStr(<<"3">>), PyStr(<<"x">>)>>)
  /\ dataframe.rows[1].cell["a"] = PyList(<<PyInt(3), PyStr(<<"x">>)>>)
  /\ result.val.report =
       PyDict(<<<<PyInt(applied.dataframe.rows[1].label),
                  PyDict(<<<<PyInt(1), PyStr(<<"x">>)>>>>)>>>>)

(***************************************************************************)
(* The aggregators of src/eda/data_analysis_utils.py.  A row of the items  *)
(* table holds the list of ids and the list of times of one user.          *)
(***************************************************************************)
HasKey(pairs, key) == \E p \in 1 .. Len(pairs) : KeyEq(pairs[p][1], key)

\* a + b of Python on numbers.  Two ints add exactly.  With a float the result is
\* a float: the exact sum rounded to the nearest number the significand can hold,
\* ties to the even one.  A float is counted in eighths; the significand of the
\* model has Significand bits where that of a Python float has 53.
Significand == 3
Eighths(v) == IF v.k = "int" THEN 8 * v.n ELSE v.n

RECURSIVE Ulp(_, _)
Ulp(n, q) == IF n < (2 ^ Significand) * q THEN q ELSE Ulp(n, 2 * q)
float_round(n) == Ulp(n, 1) * RoundHalfEven(n, Ulp(n, 1))

py_add(a, b) ==
  IF a.k = "int" /\ b.k = "int" THEN PyInt(a.n + b.n)
  ELSE PyFloat(float_round(Eighths(a) + Eighths(b)))

\* Mutant of add_times: the time of a repeated id replaces its total.
RECURSIVE add_times_overwrite(_, _, _, _)
add_times_overwrite(id_list, time_list, idx_id, key_val) ==
  IF idx_id >= Len(id_list) THEN key_val
  ELSE add_times_overwrite(id_list, time_list, idx_id + 1,
         DictPut(key_val, id_list[idx_id + 1], time_list[idx_id + 1]))

\* for idx_id, id in enumerate(id_list): key_val[id] += time_list[idx_id], or
\* key_val[id] = time_list[idx_id] for a new id.
RECURSIVE add_times(_, _, _, _)
add_times(id_list, time_list, idx_id, key_val) ==
  IF idx_id >= Len(id_list) THEN key_val
  ELSE add_times(id_list, time_list, idx_id + 1,
         DictPut(key_val, id_list[idx_id + 1],
                 IF HasKey(key_val, id_list[idx_id + 1])
                 THEN py_add(dict_get(PyDict(key_val), id_list[idx_id + 1]),
                             time_list[idx_id + 1])
                 ELSE time_list[idx_id + 1]))

\* Mutant of zero_times: an id already in the dict is set back to 0.
RECURSIVE zero_times_reset(_, _, _)
zero_times_reset(id_list, idx_id, key_val) ==
  IF idx_id >= Len(id_list) THEN key_val
  ELSE zero_times_reset(id_list, idx_id + 1,
         DictPut(key_val, id_list[idx_id + 1], PyInt(0)))

\* for idx_id, id in enumerate(id_list): if id not in key_val: key_val[id] = 0
RECURSIVE zero_times(_, _, _)
zero_times(id_list, idx_id, key_val) ==
  IF idx_id >= Len(id_list) THEN key_val
  ELSE zero_times(id_list, idx_id + 1,
         IF HasKey(key_val, id_list[idx_id + 1]) THEN key_val
         ELSE DictPut(key_val, id_list[idx_id + 1], PyInt(0)))

\* Mutant of correspond_row: a row whose lengths differ is never reported.
correspond_row_unreported(idx_row, id_list, time_list, acc) ==
  IF Len(id_list) = Len(time_list)
  THEN [acc EXCEPT !.key_val = add_times(id_list, time_list, 0, @)]
  ELSE [acc EXCEPT !.key_val = zero_times(id_list, 0, @)]

\* The body of the loop over the rows of correspond; acc is [key_val, report].
correspond_row(idx_row, id_list, time_list, acc) ==
  IF Len(id_list) = Len(time_list)
  THEN [acc EXCEPT !.key_val = add_times(id_list, time_list, 0, @)]
  ELSE IF Len(time_list) = 0
  THEN [acc EXCEPT !.key_val = zero_times(id_list, 0, @)]
  ELSE [acc EXCEPT !.report = Append(@, idx_row)]

RECURSIVE correspond_rows(_, _, _, _, _)
correspond_rows(T, column_name_1, column_name_2, i, acc) ==
  IF i > Len(T.rows) THEN acc
  ELSE correspond_rows(T, column_name_1, column_name_2, i + 1,
         correspond_row(T.rows[i].label, T.rows[i].cell[column_name_1].l,
                        T.rows[i].cell[column_name_2].l, acc))

\* correspond: [key_val, report], key_val the pairs of the dict in insertion order.
correspond(T, column_name_1, column_name_2) ==
  correspond_rows(T, column_name_1, column_name_2, 1, [key_val |-> <<>>, report |-> <<>>])

\* Mutant of sub_lists: every record of a row takes the first time of the row.
sub_lists_first_time(id_list, time_list, user_id_value, user_url_value, zero) ==
  [k \in 1 .. Len(id_list) |->
     <<id_list[k], IF zero THEN PyInt(0) ELSE time_list[1], user_id_value, user_url_value>>]

\* One sub_list per id of the row, with the times given or 0 for each.
sub_lists(id_list, time_list, user_id_value, user_url_value, zero) ==
  [k \in 1 .. Len(id_list) |->
     <<id_list[k], IF zero THEN PyInt(0) ELSE time_list[k], user_id_value, user_url_value>>]

\* Mutant of correspond_total_row: a row without times emits nothing.
correspond_total_row_skip_empty(idx_row, id_list, time_list, user_id_value, user_url_value, acc) ==
  IF Len(id_list) = Len(time_list)
  THEN [acc EXCEPT !.list_for_df =
          @ \o sub_lists(id_list, time_list, user_id_value, user_url_value, FALSE)]
  ELSE IF Len(time_list) = 0 THEN acc
  ELSE [acc EXCEPT !.report = Append(@, idx_row)]

\* The body of the loop over the rows of correspond_total; acc is [list_for_df,
\* report].
correspond_total_row(idx_row, id_list, time_list, user_id_value, user_url_value, acc) ==
  IF Len(id_list) = Len(time_list)
  THEN [acc EXCEPT !.list_for_df =
          @ \o sub_lists(id_list, time_list, user_id_value, user_url_value, FALSE)]
  ELSE IF Len(time_list) = 0
  THEN [acc EXCEPT !.list_for_df =
          @ \o sub_lists(id_list, time_list, user_id_value, user_url_value, TRUE)]
  ELSE [acc EXCEPT !.report = Append(@, idx_row)]

RECURSIVE correspond_total_rows(_, _, _, _, _, _, _)
correspond_total_rows(T, id_column, time_column, user_id_column, user_url_column, i, acc) ==
  IF i > Len(T.rows) THEN acc
  ELSE correspond_total_rows(T, id_column, time_column, user_id_column, user_url_column,
         i + 1,
         correspond_total_row(T.rows[i].label, T.rows[i].cell[id_column].l,
                              T.rows[i].cell[time_column].l, T.rows[i].cell[user_id_column],
                              T.rows[i].cell[user_url_column], acc))

correspond_total(T, id_column, time_column, user_id_column, user_url_column) ==
  correspond_total_rows(T, id_column, time_column, user_id_column, user_url_column, 1,
                        [list_for_df |-> <<>>, report |-> <<>>])

(***************************************************************************)
(* The genre aggregate.  groupby('genres') orders its groups by key and    *)
(* leaves out the rows whose key is null; the aggregate is the pairs       *)
(* <<genre, users>> of the dict, users being the rows of the group in the  *)
(* order of the table.                                                     *)
(***************************************************************************)
\* The genre names of the model, in the order of str comparison.
GenreNames == <<"Action", "Indie", "action">>

\* create_user_data(row)
create_user_data(row) ==
  [user_id |-> row.cell["user_id"], time_spent |-> row.cell["time_spent"],
   user_url |-> row.cell["user_url"]]

\* The rows of the group of one genre.
group(T, genre) == SelectSeq(T.rows, LAMBDA r : r.cell["genres"] = PyStr(<<genre>>))

\* Mutant of create_dict_genre: a group is only its first row.
create_dict_genre_first_row(T) ==
  LET keys == SelectSeq(GenreNames, LAMBDA g : group(T, g) # <<>>)
  IN  [k \in 1 .. Len(keys) |-> <<keys[k], <<create_user_data(group(T, keys[k])[1])>>>>]

create_dict_genre(T) ==
  LET keys == SelectSeq(GenreNames, LAMBDA g : group(T, g) # <<>>)
  IN  [k \in 1 .. Len(keys) |->
         <<keys[k], [j \in 1 .. Len(group(T, keys[k])) |->
                       create_user_data(group(T, keys[k])[j])]>>]

\* The total time of the users of a group.
RECURSIVE total_time(_)
total_time(users_of_genre) ==
  IF users_of_genre = <<>> THEN 0
  ELSE users_of_genre[1].time_spent.n + total_time(Tail(users_of_genre))

\* genre_rank on the aggregate: 0 for a genre that is not a key, else its place
\* (from 1) among the genres by descending total time, equal totals in the order
\* of the aggregate.
genre_rank(grouped, genre_name) ==
  IF \A k \in 1 .. Len(grouped) : grouped[k][1] # genre_name THEN 0
  ELSE
    LET at == CHOOSE k \in 1 .. Len(grouped) : grouped[k][1] = genre_name
        mine == total_time(grouped[at][2])
    IN  1 + Cardinality({k \in 1 .. Len(grouped) :
                           \/ total_time(grouped[k][2]) > mine
                           \/ total_time(grouped[k][2]) = mine /\ k < at})

(***************************************************************************)
(* One aggregator applied to one table: correspond and correspond_total to *)
(* a table of id and time lists, create_dict_genre and the genre rank to a  *)
(* table of genres and times.                                              *)
(***************************************************************************)
IdList(ids) == PyList([k \in 1 .. Len(ids) |-> PyStr(<<ids[k]>>)])
TimeList(times) == PyList([k \in 1 .. Len(times) |-> PyInt(times[k])])

\* The id and time lists of a row: equal lengths (a repeated id, both empty),
\* no times, and lengths that differ with times present.
ListPairs ==
  {<<IdList(<<"a", "b">>), TimeList(<<10, 20>>)>>,
   <<IdList(<<"a", "a">>), TimeList(<<1, 2>>)>>,
   <<IdList(<<"b">>), TimeList(<<3>>)>>,
   <<IdList(<<>>), TimeList(<<>>)>>,
   <<IdList(<<"a">>), TimeList(<<>>)>>,
   <<IdList(<<"b", "c">>), TimeList(<<>>)>>,
   <<IdList(<<"a", "b">>), TimeList(<<5>>)>>,
   <<IdList(<<>>), TimeList(<<7>>)>>}

Owners == {"u1", "u2"}

ItemRowCells ==
  {[c \in {"item_id", "playtime_forever", "user_id", "user_url"} |->
      CASE c = "item_id" -> p[1]
        [] c = "playtime_forever" -> p[2]
        [] c = "user_id" -> PyStr(<<u>>)
        [] c = "user_url" -> PyStr(<<"url", "/", u>>)] : p \in ListPairs, u \in Owners}

ItemTables ==
  {Frame(<<"item_id", "playtime_forever", "user_id", "user_url">>,
         [i \in 1 .. Len(cells) |-> Row(first + i - 1, cells[i])]) :
     cells \in SeqsUpTo(ItemRowCells, MaxTableRows), first \in FirstLabels}

GenreCells ==
  {[c \in {"genres", "user_id", "time_spent", "user_url"} |->
      CASE c = "genres" -> g
        [] c = "user_id" -> PyStr(<<"u1">>)
        [] c = "time_spent" -> PyInt(t)
        [] c = "user_url" -> PyStr(<<"url", "/", "u1">>)] :
     g \in {PyStr(<<"Action">>), PyStr(<<"Indie">>), PyStr(<<"action">>), NaN},
     t \in {1, 2}}

GenreTables ==
  {Frame(<<"genres", "user_id", "time_spent", "user_url">>,
         [i \in 1 .. Len(cells) |-> Row(i - 1, cells[i])]) :
     cells \in SeqsUpTo(GenreCells, MaxTableRows)}

\* The genre asked for: the genres of the tables and one that no table has.
GenreQueries == {"Action", "Indie", "action", "RPG"}

InitAggregate ==
  /\ dataframe \in ItemTables \cup GenreTables
  /\ applied = NotApplied /\ result = NoResult
  /\ users = <<>> /\ games = <<>> /\ reviews = <<>>
  /\ InitCalls /\ threads = NoThreads

CorrespondCall ==
  /\ applied = NotApplied
  /\ "item_id" \in ColumnSet(dataframe)
  /\ applied' = [fn |-> "correspond", dataframe |-> dataframe]
  /\ result' = Gave(correspond(dataframe, "item_id", "playtime_forever"))
  /\ UNCHANGED <<dataframe, users, games, reviews, call, ret, tallies, threads>>

CorrespondTotalCall ==
  /\ applied = NotApplied
  /\ "item_id" \in ColumnSet(dataframe)
  /\ applied' = [fn |-> "correspond_total", dataframe |-> dataframe]
  /\ result' = Gave(correspond_total(dataframe, "item_id", "playtime_forever",
                                     "user_id", "user_url"))
  /\ UNCHANGED <<dataframe, users, games, reviews, call, ret, tallies, threads>>

CreateDictGenreCall ==
  /\ applied = NotApplied
  /\ "genres" \in ColumnSet(dataframe)
  /\ applied' = [fn |-> "create_dict_genre", dataframe |-> dataframe]
  /\ result' = Gave(create_dict_genre(dataframe))
  /\ UNCHANGED <<dataframe, users, games, reviews, call, ret, tallies, threads>>

\* GET /genre/{genre_name} on the aggregate of the table.
GenreRankCall ==
  \E genre_name \in GenreQueries :
    /\ applied = NotApplied
    /\ "genres" \in ColumnSet(dataframe)
    /\ applied' = [fn |-> "genre_rank", dataframe |-> dataframe, genre_name |-> genre_name]
    /\ result' = Gave(genre_rank(create_dict_genre(dataframe), genre_name))
    /\ UNCHANGED <<dataframe, users, games, reviews, call, ret, tallies, threads>>

NextAggregate ==
  CorrespondCall \/ CorrespondTotalCall \/ CreateDictGenreCall \/ GenreRankCall

SpecAggregate == InitAggregate /\ [][NextAggregate]_vars

\* The lists of a row of the items table, and what the claims call the row.
IdsOf(row) == row.cell["item_id"].l
TimesOf(row) == row.cell["playtime_forever"].l
Inconsistent(row) == Len(IdsOf(row)) # Len(TimesOf(row)) /\ TimesOf(row) # <<>>
ConsistentRows(T) == SelectSeq(T.rows, LAMBDA r : ~Inconsistent(r))

\* The time the pairs of a row give to an id: the sum of the times at the
\* positions of the id, nothing for a row without times.
RECURSIVE TimeInRow(_, _, _)
TimeInRow(row, id, k) ==
  IF k > Len(IdsOf(row)) \/ TimesOf(row) = <<>> THEN 0
  ELSE (IF IdsOf(row)[k] = id THEN TimesOf(row)[k].n ELSE 0) + TimeInRow(row, id, k + 1)

RECURSIVE TimeInRows(_, _)
TimeInRows(rows, id) ==
  IF rows = <<>> THEN 0 ELSE TimeInRow(rows[1], id, 1) + TimeInRows(Tail(rows), id)

IdsInRows(rows) ==
  UNION {{IdsOf(rows[i])[k] : k \in 1 .. Len(IdsOf(rows[i]))} : i \in 1 .. Len(rows)}

Corresponded == applied.fn = "correspond"

\* C17: correspond gives one entry per id of the rows that are not inconsistent;
\* the value of an id is the sum of the times paired with it in the rows of equal
\* lengths, repeated ids summed within a row and across rows, and a row without
\* times only adds its new ids with 0.  Rows (["a","b"],[10,20]) then (["a"],[])
\* give {"a": 10, "b": 20}.
C17_CorrespondAccumulates ==
  Corresponded =>
    LET T == applied.dataframe
        rows == ConsistentRows(T)
        key_val == result.val.key_val
    IN  /\ {key_val[p][1] : p \in 1 .. Len(key_val)} = IdsInRows(rows)
        /\ \A p \in 1 .. Len(key_val) : \A q \in 1 .. Len(key_val) :
             key_val[p][1] = key_val[q][1] => p = q
        /\ \A p \in 1 .. Len(key_val) :
             key_val[p][2] = PyInt(TimeInRows(rows, key_val[p][1]))
        /\ (/\ Len(T.rows) = 2
            /\ IdsOf(T.rows[1]) = IdList(<<"a", "b">>).l
            /\ TimesOf(T.rows[1]) = TimeList(<<10, 20>>).l
            /\ IdsOf(T.rows[2]) = IdList(<<"a">>).l
            /\ TimesOf(T.rows[2]) = <<>>)
           => key_val = <<<<PyStr(<<"a">>), PyInt(10)>>, <<PyStr(<<"b">>), PyInt(20)>>>>

\* The rows (["a","a"],[1,2]), (["b","c"],[]) and (["a","b"],[10,20]) gave a 13,
\* b 20 and c 0.
C17_Witness ==
  /\ Corresponded
  /\ Len(applied.dataframe.rows) = 3
  /\ IdsOf(applied.dataframe.rows[1]) = IdList(<<"a", "a">>).l
  /\ TimesOf(applied.dataframe.rows[2]) = <<>>
  /\ result.val.key_val = <<<<PyStr(<<"a">>), PyInt(13)>>, <<PyStr(<<"b">>), PyInt(20)>>,
                            <<PyStr(<<"c">>), PyInt(0)>>>>

\* The example of the claim was computed.
C17_ExampleWitness ==
  /\ Corresponded
  /\ Len(applied.dataframe.rows) = 2
  /\ IdsOf(applied.dataframe.rows[1]) = IdList(<<"a", "b">>).l
  /\ TimesOf(applied.dataframe.rows[1]) = TimeList(<<10, 20>>).l
  /\ IdsOf(applied.dataframe.rows[2]) = IdList(<<"a">>).l
  /\ TimesOf(applied.dataframe.rows[2]) = <<>>
  /\ result.val.key_val = <<<<PyStr(<<"a">>), PyInt(10)>>, <<PyStr(<<"b">>), PyInt(20)>>>>

\* The index labels of the inconsistent rows, in the order of the table.
InconsistentLabels(T) ==
  [k \in 1 .. Len(SelectSeq(T.rows, Inconsistent)) |-> SelectSeq(T.rows, Inconsistent)[k].label]

\* C18: in correspond and correspond_total the report is the index labels of the
\* rows whose lists differ in length with times present, each once and in order,
\* and no other row; such a row contributes nothing: the mapping and the records
\* are those of the table without the inconsistent rows.
C18_InconsistentRowsReported ==
  /\ Corresponded =>
       LET T == applied.dataframe
           rest == Frame(T.columns, ConsistentRows(T))
       IN  /\ result.val.report = InconsistentLabels(T)
           /\ result.val.key_val =
                correspond(rest, "item_id", "playtime_forever").key_val
  /\ applied.fn = "correspond_total" =>
       LET T == applied.dataframe
           rest == Frame(T.columns, ConsistentRows(T))
       IN  /\ result.val.report = InconsistentLabels(T)
           /\ result.val.list_for_df =
                correspond_total(rest, "item_id", "playtime_forever", "user_id",
                                 "user_url").list_for_df

\* An inconsistent row stood between two rows that contribute, and was reported.
C18_Witness ==
  /\ Corresponded
  /\ Len(applied.dataframe.rows) = 3
  /\ ~Inconsistent(applied.dataframe.rows[1]) /\ IdsOf(applied.dataframe.rows[1]) # <<>>
  /\ Inconsistent(applied.dataframe.rows[2]) /\ IdsOf(applied.dataframe.rows[2]) # <<>>
  /\ ~Inconsistent(applied.dataframe.rows[3]) /\ IdsOf(applied.dataframe.rows[3]) # <<>>
  /\ result.val.report = <<applied.dataframe.rows[2].label>>

C18_TotalWitness ==
  /\ applied.fn = "correspond_total"
  /\ Len(applied.dataframe.rows) = 3
  /\ Inconsistent(applied.dataframe.rows[2]) /\ IdsOf(applied.dataframe.rows[2]) # <<>>
  /\ result.val.report = <<applied.dataframe.rows[2].label>>
  /\ Len(result.val.list_for_df) >= 2

\* The records a consistent row stands for: one per id, in the order of the list.
RecordsOf(row) ==
  [k \in 1 .. Len(IdsOf(row)) |->
     <<IdsOf(row)[k],
       IF TimesOf(row) = <<>> THEN PyInt(0) ELSE TimesOf(row)[k],
       row.cell["user_id"], row.cell["user_url"]>>]

RECURSIVE RecordsOfRows(_)
RecordsOfRows(rows) ==
  IF rows = <<>> THEN <<>> ELSE RecordsOf(rows[1]) \o RecordsOfRows(Tail(rows))

RECURSIVE IdCount(_)
IdCount(rows) == IF rows = <<>> THEN 0 ELSE Len(IdsOf(rows[1])) + IdCount(Tail(rows))

\* C19: correspond_total emits, for each consistent row in the order of the
\* table, one record per entry of its id list, with the id, the time at the same
\* position (0 when the row has no times) and the user id and user URL of the
\* row; the number of records is the sum of the lengths of the id lists of the
\* consistent rows.
C19_CorrespondTotalRecords ==
  applied.fn = "correspond_total" =>
    /\ result.val.list_for_df = RecordsOfRows(ConsistentRows(applied.dataframe))
    /\ Len(result.val.list_for_df) = IdCount(ConsistentRows(applied.dataframe))

\* A row with times, an inconsistent row and a row of two ids without times, of
\* two users, gave the records of the first and the last.
C19_Witness ==
  /\ applied.fn = "correspond_total"
  /\ Len(applied.dataframe.rows) = 3
  /\ TimesOf(applied.dataframe.rows[1]) # <<>> /\ ~Inconsistent(applied.dataframe.rows[1])
  /\ Inconsistent(applied.dataframe.rows[2])
  /\ TimesOf(applied.dataframe.rows[3]) = <<>> /\ Len(IdsOf(applied.dataframe.rows[3])) = 2
  /\ applied.dataframe.rows[1].cell["user_id"] # applied.dataframe.rows[3].cell["user_id"]
  /\ Len(result.val.list_for_df) = Len(IdsOf(applied.dataframe.rows[1])) + 2
  /\ result.val.list_for_df[Len(result.val.list_for_df)] =
       <<PyStr(<<"c">>), PyInt(0), applied.dataframe.rows[3].cell["user_id"],
         applied.dataframe.rows[3].cell["user_url"]>>

GenreRanked == applied.fn = "genre_rank"

\* The genres of the rows of the table, and the total time of the rows of one.
GenresIn(T) ==
  {g \in GenreQueries : \E i \in 1 .. Len(T.rows) : T.rows[i].cell["genres"] = PyStr(<<g>>)}

RECURSIVE GenreTotal(_, _)
GenreTotal(rows, g) ==
  IF rows = <<>> THEN 0
  ELSE (IF rows[1].cell["genres"] = PyStr(<<g>>) THEN rows[1].cell["time_spent"].n ELSE 0)
         + GenreTotal(Tail(rows), g)

\* C16: genre_rank gives 0 for a genre that no row of the aggregated table has
\* (another case of the letters is another genre), and otherwise a place from 1
\* that is above every genre of strictly larger total time and not below the
\* genres of equal or larger total: a strictly larger total has a strictly
\* smaller rank, and rank 1 has the largest total.
C16_GenreRankOrder ==
  GenreRanked =>
    LET T == applied.dataframe
        g == applied.genre_name
        rank == result.val
        larger == {h \in GenresIn(T) : GenreTotal(T.rows, h) > GenreTotal(T.rows, g)}
        at_least == {h \in GenresIn(T) : GenreTotal(T.rows, h) >= GenreTotal(T.rows, g)}
    IN  /\ g \notin GenresIn(T) => rank = 0
        /\ g \in GenresIn(T) =>
             /\ rank > Cardinality(larger)
             /\ rank <= Cardinality(at_least)
             /\ rank = 1 => \A h \in GenresIn(T) : GenreTotal(T.rows, h) <= GenreTotal(T.rows, g)
             /\ \A h \in GenresIn(T) :
                  GenreTotal(T.rows, h) > GenreTotal(T.rows, g)
                    => genre_rank(create_dict_genre(T), h) < rank
             /\ \A h \in GenresIn(T) \ {g} : genre_rank(create_dict_genre(T), h) # rank

\* Two rows of "Action" outweigh the one row of "action", which ranks second, and
\* "RPG" ranks 0 on a table that has genres.
C16_Witness ==
  /\ GenreRanked
  /\ applied.genre_name = "action"
  /\ GenresIn(applied.dataframe) = {"Action", "action"}
  /\ GenreTotal(applied.dataframe.rows, "Action") = 3
  /\ GenreTotal(applied.dataframe.rows, "action") = 2
  /\ result.val = 2

C16_AbsentWitness ==
  /\ GenreRanked
  /\ applied.genre_name = "RPG"
  /\ Len(applied.dataframe.rows) = 3
  /\ result.val = 0

(***************************************************************************)
(* convert_column_to_dates applied to one table, and applied again with    *)
(* the same patterns to the table it left.  The column a holds texts that  *)
(* are dates in one notation or another, a text that is no date, a number, *)
(* a null and a list.                                                      *)
(***************************************************************************)
DateCells ==
  {PyStr(<<"2020", "-", "01", "-", "02">>),
   PyStr(<<"02", "/", "01", "/", "2020">>),
   PyStr(<<"0999", "-", "01", "-", "02">>),
   Junk,
   PyInt(5),
   NaN,
   PyList(<<PyStr(<<"2021", "-", "1", "-", "31">>), PyInt(5)>>)}

DateTables ==
  {Frame(<<"a", "b">>,
         [i \in 1 .. Len(cells) |-> Row(first + i - 1, Cell(cells[i], PyInt(1)))]) :
     cells \in SeqsUpTo(DateCells, MaxTableRows), first \in FirstLabels}

\* original_patterns: None for the default list, or a list of patterns.
PatternLists ==
  {PyNone,
   <<"%d/%m/%Y", "%m/%d/%Y">>,
   <<"%m/%d/%Y", "%d/%m/%Y">>,
   <<"%d/%m/%Y", "%Y-%m-%d">>,
   <<"%Y-%d-%m">>}

InitDates ==
  /\ dataframe \in DateTables
  /\ applied = NotApplied /\ result = NoResult
  /\ users = <<>> /\ games = <<>> /\ reviews = <<>>
  /\ InitCalls /\ threads = NoThreads

ConvertColumnToDatesOnce ==
  \E column_name \in ColumnNames, original_patterns \in PatternLists,
     zero_padded \in BOOLEAN :
    /\ applied = NotApplied
    /\ Applied([fn |-> "convert_column_to_dates", column_name |-> column_name,
                dataframe |-> dataframe, original_patterns |-> original_patterns,
                zero_padded |-> zero_padded, calls |-> 1, once |-> dataframe],
               convert_column_to_dates(dataframe, column_name, original_patterns,
                                       zero_padded))

\* The same call on the table the first call left; once keeps that table.
ConvertColumnToDatesAgain ==
  /\ applied.fn = "convert_column_to_dates"
  /\ applied.calls = 1
  /\ Applied([applied EXCEPT !.calls = 2, !.once = dataframe],
             convert_column_to_dates(dataframe, applied.column_name,
                                     applied.original_patterns, applied.zero_padded))

NextDates ==
  \/ ConvertColumnToDatesOnce
  \/ ConvertColumnToDatesAgain

SpecDates == InitDates /\ [][NextDates]_vars

ConvertedDates ==
  /\ applied.fn = "convert_column_to_dates"
  /\ applied.calls = 1
  /\ applied.column_name \in ColumnSet(applied.dataframe)

\* The candidate patterns of a call, and the positions of those that parse a text.
Candidates(original_patterns) ==
  IF original_patterns = PyNone THEN <<"%Y-%m-%d">> ELSE original_patterns
ParsedBy(t, P) == {k \in 1 .. Len(P) : strptime_pattern(t, P[k]).ok}
FirstParsedBy(t, P) == CHOOSE k \in ParsedBy(t, P) : \A j \in ParsedBy(t, P) : k <= j

\* A date written yyyy-mm-dd: four digits, two digits, two digits.
IsoText(d) == <<Pad4(d[1]), "-", Pad2(d[2]), "-", Pad2(d[3])>>

DateFails(v, P) == v.k # "str" \/ ParsedBy(v.s, P) = {}
AfterDateConversion(v, P) ==
  IF DateFails(v, P) THEN v
  ELSE PyStr(IsoText(strptime_pattern(v.s, P[FirstParsedBy(v.s, P)]).d))

DatesFailedAt(l, P) == SelectSeq(Indices(Len(l)), LAMBDA j : DateFails(l[j], P))
NestedDateReport(l, P) ==
  PyDict([k \in 1 .. Len(DatesFailedAt(l, P)) |->
            <<PyInt(DatesFailedAt(l, P)[k] - 1), l[DatesFailedAt(l, P)[k]]>>])
DateRowFails(v, P) ==
  IF v.k = "list" THEN DatesFailedAt(v.l, P) # <<>> ELSE DateFails(v, P)

\* What the claim says of the call on table T, column c, patterns P, given the
\* table and the summary the call left.
DatesConverted(T, c, P, after, summary) ==
  LET n == Len(T.rows)
      old == [i \in 1 .. n |-> T.rows[i].cell[c]]
      failed == SelectSeq(Indices(n), LAMBDA i : DateRowFails(old[i], P))
  IN  /\ after.columns = T.columns /\ Len(after.rows) = n
      /\ \A i \in 1 .. n :
           /\ after.rows[i].label = T.rows[i].label
           /\ after.rows[i].cell["b"] = T.rows[i].cell["b"]
           /\ after.rows[i].cell[c] =
                IF old[i].k = "list"
                THEN PyList([j \in 1 .. Len(old[i].l) |->
                               AfterDateConversion(old[i].l[j], P)])
                ELSE AfterDateConversion(old[i], P)
      /\ summary.report =
           PyDict([k \in 1 .. Len(failed) |->
                     <<PyInt(T.rows[failed[k]].label),
                       IF old[failed[k]].k = "list"
                       THEN NestedDateReport(old[failed[k]].l, P)
                       ELSE old[failed[k]]>>])
      /\ summary.num_failed_conversions = Len(failed)

\* C21: convert_column_to_dates tries the candidate patterns in the given order
\* (the default list is %Y-%m-%d alone) and uses the first that parses the text;
\* every converted value is written yyyy-mm-dd; a text no pattern parses and every
\* cell that is not a text is left as it is and reported as failed under the index
\* label of its row, an element of a list cell under its index in the list.
C21_DatesConvertedInOrder ==
  ConvertedDates =>
    /\ result.st = "returned"
    /\ DatesConverted(applied.dataframe, applied.column_name,
                      Candidates(applied.original_patterns), dataframe, result.val)

\* The same, for the years a build writes with four digits: every year on a build
\* whose C library pads %Y, the years from 1000 on a build whose library does not.
YearsBelow1000(T, c, P) ==
  \E i \in 1 .. Len(T.rows) :
    LET v == T.rows[i].cell[c] IN
    /\ v.k = "str" /\ ~DateFails(v, P)
    /\ strptime_pattern(v.s, P[FirstParsedBy(v.s, P)]).d[1] < 1000

DatesConvertedAsCoded ==
  (/\ ConvertedDates
   /\ \/ applied.zero_padded
      \/ ~YearsBelow1000(applied.dataframe, applied.column_name,
                         Candidates(applied.original_patterns)))
  => /\ result.st = "returned"
     /\ DatesConverted(applied.dataframe, applied.column_name,
                       Candidates(applied.original_patterns), dataframe, result.val)

\* 02/01/2020 is read by the first of the patterns %m/%d/%Y and %d/%m/%Y, and a
\* list cell has one element that fails.
DatesOrderWitness ==
  /\ ConvertedDates
  /\ applied.original_patterns # PyNone
  /\ applied.original_patterns = <<"%m/%d/%Y", "%d/%m/%Y">>
  /\ Len(applied.dataframe.rows) = 2
  /\ applied.dataframe.rows[1].cell["a"] = PyStr(<<"02", "/", "01", "/", "2020">>)
  /\ dataframe.rows[1].cell["a"] = PyStr(<<"2020", "-", "02", "-", "01">>)
  /\ applied.dataframe.rows[2].cell["a"].k = "list"
  /\ dataframe.rows[2].cell["a"] =
       PyList(<<PyStr(<<"2021", "-", "1", "-", "31">>), PyInt(5)>>)
  /\ result.val.num_failed_conversions = 1

\* The year 999 on a build whose C library does not pad %Y.
DatesYear999Witness ==
  /\ ConvertedDates
  /\ ~applied.zero_padded
  /\ applied.original_patterns = PyNone
  /\ Len(applied.dataframe.rows) = 1
  /\ applied.dataframe.rows[1].cell["a"] = PyStr(<<"0999", "-", "01", "-", "02">>)
  /\ dataframe.rows[1].cell["a"] = PyStr(<<"999", "-", "01", "-", "02">>)
  /\ result.val.num_failed_conversions = 0

ConvertedDatesAgain ==
  /\ applied.fn = "convert_column_to_dates"
  /\ applied.calls = 2
  /\ applied.column_name \in ColumnSet(applied.dataframe)

\* The cells of column c of the table T, in row order.
ColumnOf(T, c) == [i \in 1 .. Len(T.rows) |-> T.rows[i].cell[c]]

\* C26: convert_column_to_dates is idempotent on the column values: for every
\* column and every list of candidate patterns, a second call with the same
\* patterns leaves every cell equal to its value after the first call.
C26_DatesIdempotent ==
  ConvertedDatesAgain =>
    ColumnOf(dataframe, applied.column_name) = ColumnOf(applied.once, applied.column_name)

\* The same for the pattern lists none of whose patterns parses a text written
\* yyyy-mm-dd as another date: there the second call changes no cell.
ReadsIsoAsWritten(original_patterns) ==
  \A k \in 1 .. Len(Candidates(original_patterns)) :
    Candidates(original_patterns)[k] # "%Y-%d-%m"

DatesIdempotentAsCoded ==
  (ConvertedDatesAgain /\ ReadsIsoAsWritten(applied.original_patterns)) =>
    ColumnOf(dataframe, applied.column_name) = ColumnOf(applied.once, applied.column_name)

\* 2020-01-02 under the pattern %Y-%d-%m: 2020-02-01 after the first call and
\* 2020-01-02 again after the second.
DatesSwappedTwice ==
  /\ ConvertedDatesAgain
  /\ applied.original_patterns # PyNone
  /\ applied.original_patterns = <<"%Y-%d-%m">>
  /\ Len(applied.dataframe.rows) = 1
  /\ applied.dataframe.rows[1].cell["a"] = PyStr(<<"2020", "-", "01", "-", "02">>)
  /\ applied.once.rows[1].cell["a"] = PyStr(<<"2020", "-", "02", "-", "01">>)
  /\ dataframe.rows[1].cell["a"] = PyStr(<<"2020", "-", "01", "-", "02">>)

ConvertedSpecial ==
  /\ applied.fn = "convert_special_strings"
  /\ applied.column_name \in ColumnSet(applied.dataframe)
  /\ applied.dataframe.rows # <<>>

\* A text is one of the special strings but for its case.
IsSpecial(v, special_strings) ==
  v.k = "str" /\ \E x \in special_strings : lower(v.s) = lower(x)

\* A text that is not special and is not the text of a number.
SpecialFails(v, special_strings) ==
  v.k = "str" /\ ~IsSpecial(v, special_strings) /\ ~ParsesAsNumber(v)

AfterSpecial(v, special_strings, converted_value) ==
  IF IsSpecial(v, special_strings) THEN converted_value
  ELSE IF v.k = "str" THEN AfterConversion(v)
  ELSE v

\* What the claim says of the call on table T and column c, given the table and
\* what the call left.
SpecialConverted(T, c, special_strings, converted_value, after, res) ==
  LET n == Len(T.rows)
      old == ColumnOf(T, c)
      failed == SelectSeq(Indices(n), LAMBDA i : SpecialFails(old[i], special_strings))
  IN  /\ res.st = "returned"
      /\ Len(after.rows) = n
      /\ \A i \in 1 .. n :
           after.rows[i].cell[c] = AfterSpecial(old[i], special_strings, converted_value)
      /\ res.val.report =
           PyDict([k \in 1 .. Len(failed) |->
                     <<PyInt(T.rows[failed[k]].label), old[failed[k]]>>])
      /\ res.val.num_failed_conversions = Len(failed)

\* C22: convert_special_strings replaces every text cell that is one of the special
\* strings but for its case by the replacement value; every other text cell is
\* replaced by the number it parses as, or kept and reported under the index label
\* of its row, with num_failed_conversions counting it, when it does not parse;
\* null cells and cells that are not texts are returned as they are and are never
\* reported.
C22_SpecialStringsConverted ==
  ConvertedSpecial =>
    SpecialConverted(applied.dataframe, applied.column_name, applied.special_strings,
                     applied.converted_value, dataframe, result)

\* pd.isna of a list is an array, one truth value per element.
HasLongList(T, c) ==
  \E i \in 1 .. Len(T.rows) :
    T.rows[i].cell[c].k \in {"list", "tuple"} /\ Len(T.rows[i].cell[c].l) >= 2

\* The same for the columns without a list of two or more elements; with one, the
\* call raises ValueError and the table is as it was.
SpecialStringsAsCoded ==
  ConvertedSpecial =>
    IF HasLongList(applied.dataframe, applied.column_name)
    THEN result = Threw("ValueError") /\ dataframe = applied.dataframe
    ELSE SpecialConverted(applied.dataframe, applied.column_name, applied.special_strings,
                          applied.converted_value, dataframe, result)

\* The column ["x", "3", NaN] with the special string "X", and with "Free".
SpecialCaseWitness ==
  /\ ConvertedSpecial
  /\ applied.special_strings = {<<"X">>}
  /\ ColumnOf(applied.dataframe, "a") = <<PyStr(<<"x">>), PyStr(<<"3">>), NaN>>
  /\ ColumnOf(dataframe, "a") = <<PyInt(0), PyInt(3), NaN>>
  /\ result.val.num_failed_conversions = 0

SpecialFailWitness ==
  /\ ConvertedSpecial
  /\ applied.special_strings = {<<"Free">>}
  /\ ColumnOf(applied.dataframe, "a") = <<PyStr(<<"x">>), PyStr(<<"3">>), NaN>>
  /\ ColumnOf(dataframe, "a") = <<PyStr(<<"x">>), PyInt(3), NaN>>
  /\ result.val.num_failed_conversions = 1

SpecialListWitness ==
  /\ ConvertedSpecial
  /\ Len(applied.dataframe.rows) = 2
  /\ applied.dataframe.rows[2].cell["a"] = PyList(<<PyStr(<<"3">>), PyStr(<<"x">>)>>)
  /\ result = Threw("ValueError")

(***************************************************************************)
(* extract_values applied to one table whose column a holds sequences of   *)
(* records, or a null.                                                     *)
(***************************************************************************)
RecordCells ==
  {PyList(<<>>),
   PyList(<<PyDict(<<<<PyStr(<<"c">>), PyInt(1)>>>>)>>),
   PyList(<<PyDict(<<<<PyStr(<<"c">>), PyInt(1)>>>>), PyDict(<<>>)>>),
   PyList(<<PyDict(<<<<PyStr(<<"x">>), PyInt(2)>>, <<PyStr(<<"c">>), PyInt(3)>>>>),
            PyDict(<<<<PyStr(<<"x">>), PyInt(4)>>>>)>>),
   NaN}

RecordTables ==
  {Frame(<<"a", "b">>,
         [i \in 1 .. Len(cells) |-> Row(first + i - 1, Cell(cells[i], PyInt(1)))]) :
     cells \in SeqsUpTo(RecordCells, MaxTableRows), first \in FirstLabels}

InitExtract ==
  /\ dataframe \in RecordTables
  /\ applied = NotApplied /\ result = NoResult
  /\ users = <<>> /\ games = <<>> /\ reviews = <<>>
  /\ InitCalls /\ threads = NoThreads

SpecExtract == InitExtract /\ [][ExtractValuesCall]_vars

\* extract_values was called with as many keys as new columns on a column of
\* sequences of records.
Extracted ==
  /\ applied.fn = "extract_values"
  /\ applied.column_name \in ColumnSet(applied.dataframe)
  /\ Len(applied.keys) = Len(applied.new_columns)
  /\ \A i \in 1 .. Len(applied.dataframe.rows) :
       LET v == applied.dataframe.rows[i].cell[applied.column_name] IN
       v.k = "list" /\ \A j \in 1 .. Len(v.l) : v.l[j].k = "dict"

\* The value of a record at a key, null when the record lacks the key.
ValueAt(record, key) ==
  LET at == {p \in 1 .. Len(record.l) : record.l[p][1] = key} IN
  IF at = {} THEN PyNone ELSE record.l[CHOOSE p \in at : TRUE][2]

\* What the claim says of the table `after` the call on table T.
ValuesExtracted(T, c, keys, new_columns, after) ==
  \A i \in 1 .. Len(T.rows), k \in 1 .. Len(keys) :
    LET records == T.rows[i].cell[c].l IN
    /\ after.rows[i].label = T.rows[i].label
    /\ after.rows[i].cell[new_columns[k]] =
         PyList([j \in 1 .. Len(records) |-> ValueAt(records[j], keys[k])])

\* C23: for parallel lists keys and new_columns of equal length, after
\* extract_values the cell of every row in new_columns[k] is a list with exactly
\* one element per record of the row's source sequence, in order, the j-th being
\* record j's value at keys[k], or null when the record lacks the key; also when
\* keys has the same key twice.
C23_ExtractOnePerRecord ==
  Extracted =>
    /\ result.st = "returned"
    /\ Len(dataframe.rows) = Len(applied.dataframe.rows)
    /\ ValuesExtracted(applied.dataframe, applied.column_name, applied.keys,
                       applied.new_columns, dataframe)

\* The same for keys that are all different.
DistinctKeys(keys) == \A j, k \in 1 .. Len(keys) : keys[j] = keys[k] => j = k

ExtractAsCoded ==
  (Extracted /\ DistinctKeys(applied.keys)) =>
    /\ result.st = "returned"
    /\ Len(dataframe.rows) = Len(applied.dataframe.rows)
    /\ ValuesExtracted(applied.dataframe, applied.column_name, applied.keys,
                       applied.new_columns, dataframe)

\* Two keys on a row of two records, the second without the key c.
ExtractTwoKeysWitness ==
  /\ Extracted
  /\ applied.keys = <<PyStr(<<"c">>), PyStr(<<"x">>)>>
  /\ Len(applied.dataframe.rows) = 1
  /\ Len(applied.dataframe.rows[1].cell["a"].l) = 2
  /\ dataframe.rows[1].cell["d"] = PyList(<<PyInt(3), PyNone>>)
  /\ dataframe.rows[1].cell["e"] = PyList(<<PyInt(2), PyInt(4)>>)

\* The key c twice on a row of one record: each new column gets two elements.
ExtractSameKeyWitness ==
  /\ Extracted
  /\ applied.keys = <<PyStr(<<"c">>), PyStr(<<"c">>)>>
  /\ Len(applied.dataframe.rows) = 1
  /\ Len(applied.dataframe.rows[1].cell["a"].l) = 1
  /\ dataframe.rows[1].cell["d"] = PyList(<<PyInt(1), PyInt(1)>>)
  /\ dataframe.rows[1].cell["e"] = PyList(<<PyInt(1), PyInt(1)>>)

\* A normalizer call that ends in an error: the column is absent, or keys and
\* new_columns of extract_values differ in length.
LengthMismatch ==
  applied.fn = "extract_values" /\ Len(applied.keys) # Len(applied.new_columns)
EndedInError == Called /\ (AbsentColumn \/ LengthMismatch)

\* C25: a normalizer call that ends in an error (absent column for any normalizer,
\* or keys and new_columns of different lengths for extract_values) leaves the
\* table it was given unchanged: same columns, same rows, same cell values.
C25_ErrorLeavesTableUnchanged ==
  EndedInError => dataframe = applied.dataframe

\* The same for every error but the absent column of extract_values, which is met
\* after the new columns were added to the table.
ErrorLeavesTableAsCoded ==
  EndedInError =>
    IF applied.fn = "extract_values" /\ ~LengthMismatch
    THEN /\ result = Threw("KeyError")
         /\ ColumnSet(dataframe) =
              ColumnSet(applied.dataframe)
                \cup {applied.new_columns[k] : k \in 1 .. Len(applied.new_columns)}
    ELSE dataframe = applied.dataframe

\* extract_values on the absent column zz with the new column d: KeyError, and the
\* table has the column d.
ErrorAddedColumnWitness ==
  /\ applied.fn = "extract_values"
  /\ applied.column_name = "zz"
  /\ applied.new_columns = <<"d">>
  /\ Len(applied.dataframe.rows) = 2
  /\ result = Threw("KeyError")
  /\ dataframe.columns = <<"a", "b", "d">>
  /\ dataframe.rows[1].cell["d"] = NaN

\* extract_values with one key and no new column raises and leaves the table.
ErrorMismatchWitness ==
  /\ LengthMismatch
  /\ Len(applied.dataframe.rows) = 2
  /\ result.st # "returned"
  /\ dataframe = applied.dataframe

(***************************************************************************)
(* money_spent on a users table with several rows of the queried user      *)
(* (checked under SpecMoney).                                              *)
(***************************************************************************)
FirstUserRow == CHOOSE i \in UserRows : \A j \in UserRows : i <= j
SeveralUserRows == MoneyCalled /\ Cardinality(UserRows) >= 2

\* The users table without the rows of the user after the first.
WithoutLaterRows ==
  LET kept == SelectSeq(Indices(Len(users)),
                        LAMBDA i : i \notin UserRows \/ i = FirstUserRow)
  IN  [k \in 1 .. Len(kept) |-> users[kept[k]]]

\* C24: when several rows of the users table have the queried user_id, money_spent
\* computes its result from the first of them alone: the result is the result on
\* the table without the later rows of the user, whatever those rows hold, null
\* cells included.
C24_FirstMatchingRowAlone ==
  SeveralUserRows => ret = money_spent(WithoutLaterRows, games, call.user_id)

\* The same when no later row of the user has a null cell.
LaterRowNull ==
  \E i \in UserRows \ {FirstUserRow}, col \in {"item_id", "recommend", "items_count"} :
    users[i][col] = NaN

FirstMatchingRowAsCoded ==
  (SeveralUserRows /\ ~LaterRowNull) =>
    ret = money_spent(WithoutLaterRows, games, call.user_id)

\* Two rows of u1, the second with a null item_id: the first row alone gives 0.38
\* (the price 0.375 rounded) and 50 percent, the two rows give 0 and 50 percent.
LaterNullWitness ==
  /\ SeveralUserRows
  /\ call.user_id = "u1" /\ Len(users) = 2
  /\ users[1] = UserRow("u1", PyStr(Repr(PyList(<<PyInt(1)>>))),
                        PyStr(Repr(PyList(<<PyBool(TRUE)>>))), PyInt(2))
  /\ users[2] = UserRow("u1", NaN, PyStr(Repr(PyList(<<PyBool(TRUE)>>))), PyInt(2))
  /\ ret = Returned(0, 5000)
  /\ money_spent(WithoutLaterRows, games, "u1") = Returned(38, 5000)

\* Two rows of u1 that differ, none with a null after the first.
LaterRowIgnoredWitness ==
  /\ SeveralUserRows /\ ~LaterRowNull
  /\ call.user_id = "u1" /\ Len(users) = 2
  /\ users[1].item_id = NaN /\ users[2].item_id # NaN
  /\ ret = Returned(0, 5000)

(***************************************************************************)
(* num_user_review over nested date ranges (checked under SpecReview).     *)
(***************************************************************************)
\* The call was given a range of the calendar window, from day d[1] to day d[2].
RangeCalled == ReviewCalled /\ call.dates \in RangeArgs
RangeDays ==
  CHOOSE d \in (1 .. MaxDay) \X (1 .. MaxDay) : RangeText(d[1], d[2]) = call.dates

\* The ranges of the window that contain the range from day i to day j.
Containing(i, j) == {d \in (1 .. MaxDay) \X (1 .. MaxDay) : d[1] <= i /\ j <= d[2]}

\* C30: num_user_review is monotone in the date range and bounded by the table:
\* for every reviews table and ranges [s1, e1] contained in [s2, e2] the count for
\* [s1, e1] is at most the count for [s2, e2]; the count never exceeds the number
\* of review records; and a range whose start is later than its end yields (0, 0).
C30_CountMonotoneAndBounded ==
  RangeCalled =>
    LET d == RangeDays IN
    /\ ret.st = "returned"
    /\ ret.a <= Len(reviews)
    /\ d[1] > d[2] => ret = Returned(0, 0)
    /\ \A w \in Containing(d[1], d[2]) :
         LET wider == num_user_review(reviews, RangeText(w[1], w[2])) IN
         wider.st = "returned" /\ ret.a <= wider.a

\* The same for the calls that return: whenever the call on a range returns, its
\* count is at most the number of records and at most the count of every call on a
\* containing range that returns, and it is (0, 0) when the start is later than
\* the end.  A call raises TypeError on a table with a posted cell that is no
\* list of texts, whatever the range.
CountMonotoneAsCoded ==
  (RangeCalled /\ ret.st = "returned") =>
    LET d == RangeDays IN
    /\ ret.a <= Len(reviews)
    /\ d[1] > d[2] => ret = Returned(0, 0)
    /\ \A w \in Containing(d[1], d[2]) :
         LET wider == num_user_review(reviews, RangeText(w[1], w[2])) IN
         wider.st = "returned" => ret.a <= wider.a

\* Two records, one with a date on day 2 and one with dates on days 2 and 3: the
\* range of day 3 alone counts one record, the range of days 2 to 3 counts two.
CountGrowsWitness ==
  /\ RangeCalled /\ ret.st = "returned"
  /\ Len(reviews) = 2
  /\ call.dates = RangeText(3, 3)
  /\ ret.a = 1
  /\ num_user_review(reviews, RangeText(2, 3)).a = 2

\* A range whose start is later than its end on a table with dates inside it.
EmptyRangeWitness ==
  /\ RangeCalled
  /\ call.dates = RangeText(3, 2)
  /\ Len(reviews) = 2
  /\ num_user_review(reviews, RangeText(2, 3)).a = 2
  /\ ret = Returned(0, 0)

\* The same range on a table with a null posted cell: TypeError.
EmptyRangeRaisesWitness ==
  /\ RangeCalled
  /\ call.dates = RangeText(3, 2)
  /\ Len(reviews) = 1 /\ reviews[1].posted = NaN
  /\ ret = Raised(TypeError)

(***************************************************************************)
(* correspond on a table, then on the same rows in another order, or       *)
(* correspond_total on the same table.  The times are ints and floats: one *)
(* float too large for its sum with the smallest to be held exactly.       *)
(***************************************************************************)
LargeFloat == PyFloat(2 ^ Significand)
SmallFloat == PyFloat(1)

TimedPairs ==
  {<<IdList(<<"a">>), PyList(<<LargeFloat>>)>>,
   <<IdList(<<"a">>), PyList(<<SmallFloat>>)>>,
   <<IdList(<<"a">>), TimeList(<<>>)>>,
   <<IdList(<<"a", "b">>), TimeList(<<1, 2>>)>>,
   <<IdList(<<"b", "a">>), TimeList(<<3, 4>>)>>,
   <<IdList(<<"a", "b">>), TimeList(<<5>>)>>}

TimedRowCells ==
  {[c \in {"item_id", "playtime_forever", "user_id", "user_url"} |->
      CASE c = "item_id" -> p[1]
        [] c = "playtime_forever" -> p[2]
        [] c = "user_id" -> PyStr(<<"u1">>)
        [] c = "user_url" -> PyStr(<<"url", "/", "u1">>)] : p \in TimedPairs}

TimedTables ==
  {Frame(<<"item_id", "playtime_forever", "user_id", "user_url">>,
         [i \in 1 .. Len(cells) |-> Row(first + i - 1, cells[i])]) :
     cells \in SeqsUpTo(TimedRowCells, MaxTableRows), first \in FirstLabels}

InitCompare ==
  /\ dataframe \in TimedTables
  /\ applied = NotApplied /\ result = NoResult
  /\ users = <<>> /\ games = <<>> /\ reviews = <<>>
  /\ InitCalls /\ threads = NoThreads

\* correspond on the table as given; once keeps what it returned.
CorrespondOnce ==
  /\ applied = NotApplied
  /\ applied' = [fn |-> "correspond", dataframe |-> dataframe, calls |-> 1,
                 once |-> correspond(dataframe, "item_id", "playtime_forever")]
  /\ result' = Gave(correspond(dataframe, "item_id", "playtime_forever"))
  /\ UNCHANGED <<dataframe, users, games, reviews, call, ret, tallies, threads>>

\* The rows are put in another order, each with its index label, and correspond
\* is called on the table.
CorrespondShuffled ==
  \E order \in Permutations(1 .. Len(dataframe.rows)) :
    /\ applied.fn = "correspond" /\ applied.calls = 1
    /\ dataframe' = Frame(dataframe.columns,
                          [i \in 1 .. Len(dataframe.rows) |-> dataframe.rows[order[i]]])
    /\ applied' = [applied EXCEPT !.fn = "correspond shuffled", !.calls = 2]
    /\ result' = Gave(correspond(dataframe', "item_id", "playtime_forever"))
    /\ UNCHANGED <<users, games, reviews, call, ret, tallies, threads>>

\* correspond_total is called on the table correspond was called on.
CorrespondTotalAfter ==
  /\ applied.fn = "correspond" /\ applied.calls = 1
  /\ applied' = [applied EXCEPT !.fn = "correspond_total", !.calls = 2]
  /\ result' = Gave(correspond_total(dataframe, "item_id", "playtime_forever",
                                     "user_id", "user_url"))
  /\ UNCHANGED <<dataframe, users, games, reviews, call, ret, tallies, threads>>

NextCompare ==
  \/ CorrespondOnce
  \/ CorrespondShuffled
  \/ CorrespondTotalAfter

SpecCompare == InitCompare /\ [][NextCompare]_vars

\* A dict as Python compares dicts: the set of its pairs, whatever the order of
\* insertion, a number by its value (0 == 0.0).
AsMapping(key_val) == {<<key_val[p][1], Eighths(key_val[p][2])>> : p \in 1 .. Len(key_val)}
Reported(report) == {report[k] : k \in 1 .. Len(report)}
Shuffled == applied.fn = "correspond shuffled"
IntegerTimes(T) ==
  \A i \in 1 .. Len(T.rows) : \A k \in 1 .. Len(TimesOf(T.rows[i])) :
    TimesOf(T.rows[i])[k].k = "int"

\* C27 as stated: for every table with numeric times and every permutation of
\* its rows, correspond gives the same id-to-total mapping and the same set of
\* row indices reported as inconsistent.
C27_MappingOrderIndependent ==
  Shuffled =>
    /\ AsMapping(result.val.key_val) = AsMapping(applied.once.key_val)
    /\ Reported(result.val.report) = Reported(applied.once.report)

\* C27 amended: for every table whose times are integers and every permutation
\* of its rows, correspond gives the same id-to-total mapping; for every table
\* with numeric times and every permutation, the same set of row indices is
\* reported as inconsistent.
MappingOrderIndependentOfIntegers ==
  Shuffled =>
    /\ IntegerTimes(dataframe) =>
         AsMapping(result.val.key_val) = AsMapping(applied.once.key_val)
    /\ Reported(result.val.report) = Reported(applied.once.report)

\* Three rows with integer times, the first without times for an id the later
\* rows add to, were put in another order: the ids came into the dict in another
\* order and the mapping is the same.
ShuffledIntegersWitness ==
  /\ Shuffled
  /\ Len(dataframe.rows) = 3
  /\ IntegerTimes(dataframe)
  /\ dataframe.rows[1].label # applied.dataframe.rows[1].label
  /\ TimesOf(applied.dataframe.rows[1]) = <<>>
  /\ Inconsistent(applied.dataframe.rows[2])
  /\ IdsOf(applied.dataframe.rows[3]) = IdList(<<"b", "a">>).l
  /\ IdsOf(dataframe.rows[1]) = IdList(<<"b", "a">>).l
  /\ result.val.key_val # applied.once.key_val
  /\ AsMapping(result.val.key_val) = AsMapping(applied.once.key_val)
  /\ result.val.report = applied.once.report
  /\ Len(result.val.report) = 1

\* The float times: the large one first, the two small ones are lost one after
\* the other; the small ones first, their sum is kept.
ShuffledFloatsWitness ==
  /\ Shuffled
  /\ Len(dataframe.rows) = 3
  /\ TimesOf(applied.dataframe.rows[1]) = <<LargeFloat>>
  /\ TimesOf(applied.dataframe.rows[2]) = <<SmallFloat>>
  /\ TimesOf(applied.dataframe.rows[3]) = <<SmallFloat>>
  /\ TimesOf(dataframe.rows[3]) = <<LargeFloat>>
  /\ applied.once.key_val = <<<<PyStr(<<"a">>), LargeFloat>>>>
  /\ result.val.key_val = <<<<PyStr(<<"a">>), PyFloat(2 ^ Significand + 2)>>>>

\* sum() of Python over the times of the records of an id, in the order of the
\* records.
RECURSIVE SumOfRecords(_, _, _, _)
SumOfRecords(records, id, k, acc) ==
  IF k > Len(records) THEN acc
  ELSE SumOfRecords(records, id, k + 1,
         IF KeyEq(records[k][1], id) THEN py_add(acc, records[k][2]) ELSE acc)

\* C28: correspond and correspond_total agree on every table: they report the
\* same inconsistent row indices, the ids of the mapping of correspond are the
\* ids of the records of correspond_total, and for each id the total in the
\* mapping is the sum of the times of the records of that id.
C28_CorrespondAgreesWithTotal ==
  applied.fn = "correspond_total" /\ applied.calls = 2 =>
    LET key_val == applied.once.key_val
        records == result.val.list_for_df
    IN  /\ result.val.report = applied.once.report
        /\ {key_val[p][1] : p \in 1 .. Len(key_val)} =
             {records[k][1] : k \in 1 .. Len(records)}
        /\ \A p \in 1 .. Len(key_val) :
             Eighths(key_val[p][2]) =
               Eighths(SumOfRecords(records, key_val[p][1], 1, PyInt(0)))

\* Both were called on a row of two ids with two times, an inconsistent row and
\* a row that repeats the ids: two records per id, the totals their sums.
BothCalledWitness ==
  /\ applied.fn = "correspond_total" /\ applied.calls = 2
  /\ Len(dataframe.rows) = 3
  /\ TimesOf(dataframe.rows[1]) = TimeList(<<1, 2>>).l
  /\ Inconsistent(dataframe.rows[2])
  /\ TimesOf(dataframe.rows[3]) = TimeList(<<3, 4>>).l
  /\ Len(result.val.list_for_df) = 4
  /\ Len(result.val.report) = 1
  /\ applied.once.key_val = <<<<PyStr(<<"a">>), PyInt(5)>>, <<PyStr(<<"b">>), PyInt(5)>>>>

\* Both were called on float times that lose a part in the sum.
BothCalledFloatsWitness ==
  /\ applied.fn = "correspond_total" /\ applied.calls = 2
  /\ Len(dataframe.rows) = 3
  /\ TimesOf(dataframe.rows[1]) = <<LargeFloat>>
  /\ TimesOf(dataframe.rows[2]) = <<SmallFloat>>
  /\ TimesOf(dataframe.rows[3]) = <<SmallFloat>>
  /\ applied.once.key_val = <<<<PyStr(<<"a">>), LargeFloat>>>>

(***************************************************************************)
(* transform_to_numeric of the validation module.  A text is its words and *)
(* the spaces between them; "TM" stands for the trade mark sign of the     *)
(* last entry of free_list, which lower() leaves as it is.                 *)
(***************************************************************************)
free_list ==
  {<<"free", " ", "to", " ", "play">>,
   <<"free">>,
   <<"Free", " ", "Demo">>,
   <<"Free", " ", "to", " ", "Use">>,
   <<"Free", " ", "Mod">>,
   <<"Free", " ", "to", " ", "try">>,
   <<"Install", " ", "Theme">>,
   <<"Play", " ", "the", " ", "Demo">>,
   <<"Play", " ", "for", " ", "Free", "!">>,
   <<"Install", " ", "Now">>,
   <<"Play", " ", "WARMACHINE:", " ", "Tactics", " ", "Demo">>,
   <<"Third-party">>,
   <<"play", " ", "now">>,
   <<"Free", " ", "HITMAN", "TM", " ", "Holiday", " ", "Pack">>}

\* The dtypes the column can have: object when a cell is a str or None; a column
\* of numbers and NaN alone is numeric as loaded, and object when it was assigned
\* from an object array.
ColumnDtypes(T, column_name) ==
  IF \E i \in 1 .. Len(T.rows) : T.rows[i].cell[column_name].k \in {"str", "none"}
  THEN {"object"} ELSE {"object", "numeric"}

\* np.where(dataframe[column_name].str.lower().isin(free_list), 0, ...) for one
\* cell: str.lower() of a cell that is no str is NaN, which is in no list.
free_to_zero(value, entries) ==
  IF value.k = "str" /\ lower(value.s) \in entries THEN PyInt(0) ELSE value

\* pd.to_numeric(..., errors="coerce") for one cell.
coerce(value) == IF to_numeric(value).fail THEN NaN ELSE to_numeric(value).val

\* The values of numeric_values: float64 when one of them is a float or NaN.
as_dtype(values) ==
  IF \A i \in 1 .. Len(values) : values[i].k = "int" THEN values
  ELSE [i \in 1 .. Len(values) |->
          IF values[i].k = "int" THEN PyFloat(8 * values[i].n) ELSE values[i]]

\* [{"index": index, "value": value} for index, value in
\*  dataframe[column_name][non_numeric_mask].items()]
RECURSIVE stored_info_from(_, _, _, _)
stored_info_from(T, column_name, numeric_values, i) ==
  IF i > Len(T.rows) THEN <<>>
  ELSE (IF isnull(numeric_values[i])
        THEN <<[index |-> T.rows[i].label, value |-> T.rows[i].cell[column_name]]>>
        ELSE <<>>) \o stored_info_from(T, column_name, numeric_values, i + 1)

\* The column after np.where, and after the cells that are numeric were assigned.
with_column(T, column_name, values) ==
  Frame(T.columns,
        [i \in 1 .. Len(T.rows) |->
           Row(T.rows[i].label, [T.rows[i].cell EXCEPT ![column_name] = values[i]])])

transform_summary(T, column_name, numeric_values) ==
  LET stored_info == stored_info_from(T, column_name, numeric_values, 1) IN
  Outcome(with_column(T, column_name,
            [i \in 1 .. Len(T.rows) |->
               IF isnull(numeric_values[i]) THEN T.rows[i].cell[column_name]
               ELSE numeric_values[i]]),
          Gave([total_values |-> Len(T.rows),
                numeric_count |-> Len(T.rows) - Len(stored_info),
                non_numeric_count |-> Len(stored_info),
                stored_info |-> stored_info]))

transform_to_numeric(T, column_name, dtype) ==
  IF column_name \notin ColumnSet(T) THEN Outcome(T, ErrorValue(column_name))
  ELSE IF dtype # "object" THEN Outcome(T, Threw("AttributeError"))
  ELSE
    LET zeroed == with_column(T, column_name,
                    [i \in 1 .. Len(T.rows) |->
                       free_to_zero(T.rows[i].cell[column_name], free_list)])
    IN  transform_summary(zeroed, column_name,
          as_dtype([i \in 1 .. Len(T.rows) |-> coerce(zeroed.rows[i].cell[column_name])]))

\* The cells of the column: texts of free_list in several cases, a number as
\* text, a text that is neither, a number and NaN.
TextPriceCells ==
  {PyStr(<<"Free", " ", "to", " ", "Play">>),
   PyStr(<<"free">>),
   PyStr(<<"Free", " ", "Demo">>),
   PyStr(<<"Install", " ", "Now">>),
   PyStr(<<"Third-party">>),
   PyStr(<<"play", " ", "now">>),
   PyStr(<<"free", " ", "movie">>),
   PyStr(<<"3">>),
   PyInt(2),
   NaN}

TextPriceTables ==
  {Frame(<<"a", "b">>,
         [i \in 1 .. Len(cells) |-> Row(first + i - 1, Cell(cells[i], PyInt(1)))]) :
     cells \in SeqsUpTo(TextPriceCells, MaxTableRows), first \in FirstLabels}

InitTransform ==
  /\ dataframe \in TextPriceTables
  /\ applied = NotApplied /\ result = NoResult
  /\ users = <<>> /\ games = <<>> /\ reviews = <<>>
  /\ InitCalls /\ threads = NoThreads

TransformToNumericCall ==
  \E column_name \in ColumnNames :
    \E dtype \in IF column_name \in ColumnSet(dataframe)
                 THEN ColumnDtypes(dataframe, column_name) ELSE {"object"} :
      /\ applied = NotApplied
      /\ Applied([fn |-> "transform_to_numeric", column_name |-> column_name,
                  dataframe |-> dataframe, dtype |-> dtype],
                 transform_to_numeric(dataframe, column_name, dtype))

SpecTransform == InitTransform /\ [][TransformToNumericCall]_vars

Transformed ==
  applied.fn = "transform_to_numeric" /\ applied.column_name \in ColumnSet(applied.dataframe)
PriceBefore(i) == applied.dataframe.rows[i].cell[applied.column_name]
PriceAfter(i) == dataframe.rows[i].cell[applied.column_name]
EqualsIgnoringCase(value, entries) ==
  value.k = "str" /\ \E e \in entries : lower(value.s) = lower(e)
IsStored(label) ==
  \E k \in 1 .. Len(result.val.stored_info) : result.val.stored_info[k].index = label

\* The cell of row i became the number 0 and is not listed in stored_info, and
\* every row that is not listed is counted in numeric_count.
MappedToZero(i) ==
  /\ result.st = "returned"
  /\ PriceAfter(i).k \in {"int", "float"} /\ PriceAfter(i).n = 0
  /\ ~IsStored(dataframe.rows[i].label)
  /\ result.val.numeric_count + Len(result.val.stored_info) = result.val.total_values

\* C29: transform_to_numeric maps to 0 every cell whose text equals, ignoring
\* case, an entry of free_list ("Free to Play", "Free Demo", "Install Now",
\* "Third-party"); such a cell is counted in numeric_count and never listed in
\* stored_info.
C29_FreeListMappedToZero ==
  Transformed =>
    \A i \in 1 .. Len(applied.dataframe.rows) :
      EqualsIgnoringCase(PriceBefore(i), free_list) => MappedToZero(i)

\* What the code does: the cell in lower case is looked up in free_list as
\* written, so a cell is mapped to 0 exactly when its lower case is an entry.
LowerCaseEntries == {e \in free_list : lower(e) = e}
FreeListAsCoded ==
  Transformed =>
    \A i \in 1 .. Len(applied.dataframe.rows) :
      /\ EqualsIgnoringCase(PriceBefore(i), LowerCaseEntries) => MappedToZero(i)
      /\ (EqualsIgnoringCase(PriceBefore(i), free_list)
            /\ ~EqualsIgnoringCase(PriceBefore(i), LowerCaseEntries))
         => /\ result.st = "returned"
            /\ PriceAfter(i) = PriceBefore(i)
            /\ IsStored(dataframe.rows[i].label)

\* "Free to Play" and "Free Demo" in one column: the first became 0.0 and the
\* second is listed in stored_info.
FreeDemoStoredWitness ==
  /\ Transformed
  /\ Len(dataframe.rows) = 2
  /\ PriceBefore(1) = PyStr(<<"Free", " ", "to", " ", "Play">>)
  /\ PriceBefore(2) = PyStr(<<"Free", " ", "Demo">>)
  /\ PriceAfter(1) = PyFloat(0)
  /\ result = Gave([total_values |-> 2, numeric_count |-> 1, non_numeric_count |-> 1,
                    stored_info |-> <<[index |-> dataframe.rows[2].label,
                                       value |-> PyStr(<<"Free", " ", "Demo">>)]>>])

\* A column of numbers alone with a numeric dtype: .str raises.
NumericColumnRaisesWitness ==
  /\ Transformed
  /\ applied.dtype = "numeric"
  /\ Len(dataframe.rows) = 2
  /\ result = Threw("AttributeError")

====
